---- MODULE Spec2Model ----
(***************************************************************************)
(* Verification model of sec-edgar-mcp: the shared rate limiter and cache  *)
(* of sec_edgar_mcp/utils.py, the Form 4 extractor of form4_parser.py and  *)
(* the request paths of the cross-company search.                          *)
(*                                                                         *)
(* Time is counted in ticks of 0.1 s for the rate limiter (the safety      *)
(* margin of wait_if_needed, 0.1 s, is one tick) and in hours for the      *)
(* cache (every TTL of Cache.default_ttl is a whole number of hours).      *)
(***************************************************************************)
EXTENDS Integers, Sequences, FiniteSets, TLC

VARIABLES
    clock,      \* time.time(), in ticks
    requests,   \* RateLimiter.requests: the recorded timestamps
    pc,         \* per thread: its position inside wait_if_needed
    now,        \* per thread: the local `now` of wait_if_needed
    kept,       \* per thread: the list the comprehension has built
    wake,       \* per thread: the instant its time.sleep may return
    history,    \* ghost: one record per call of wait_if_needed that returned
    wall,       \* datetime.now(), in hours
    cache,      \* Cache.cache: cache key -> entry
    lastGet,    \* ghost: what the last Cache.get found and returned
    stored,     \* ghost: per wrapped call, the last invocation of the operation
    lastCall,   \* ghost: the last call of a cached wrapper
    doc,        \* the document text handed to parse_form4_xml, by what it holds
    parsed,     \* what parse_form4_xml did with it
    spc,        \* get_all_insider_companies: the position of the running call
    search,     \* its locals: the strategy and the work still to do
    sent,       \* ghost: the outbound requests issued
    names,      \* the names given to the name matcher
    matching,   \* what normalize_name and is_name_match returned for them
    profile,    \* what the search has found, before its result is built
    reply,      \* the dictionary returned to the caller
    getting     \* per thread: its position inside Cache.get, and how it ended

limiterVars == <<clock, requests, pc, now, kept, wake, history>>
cacheVars == <<wall, cache, lastGet, stored, lastCall>>
parserVars == <<doc, parsed>>
searchVars == <<spc, search, sent>>
nameVars == <<names, matching>>
profileVars == <<profile, reply>>
callerVars == <<getting>>

vars == <<limiterVars, cacheVars, parserVars, searchVars, nameVars, profileVars, callerVars>>

\* what the actions of one component leave alone
notLimiter == <<cacheVars, parserVars, searchVars, nameVars, profileVars, callerVars>>
notCache == <<limiterVars, parserVars, searchVars, nameVars, profileVars, callerVars>>
notParser == <<limiterVars, cacheVars, searchVars, nameVars, profileVars, callerVars>>
notNames == <<limiterVars, cacheVars, parserVars, searchVars, profileVars, callerVars>>
notProfile == <<limiterVars, cacheVars, parserVars, searchVars, nameVars, callerVars>>
notCallers == <<limiterVars, parserVars, searchVars, nameVars, profileVars>>

\* None, and an object json.dumps cannot serialise (the receiver of a method)
NoneValue == "None"
Receiver == "<object>"

NoGet == [op |-> "none"]
NoCall == [op |-> "none"]
NoStore == [at |-> -1]

LimiterAtRest ==
    /\ clock = 0
    /\ requests = <<>>
    /\ pc = <<>>
    /\ now = <<>>
    /\ kept = <<>>
    /\ wake = <<>>
    /\ history = <<>>

CacheAtRest ==
    /\ wall = 0
    /\ cache = <<>>
    /\ lastGet = NoGet
    /\ stored = <<>>
    /\ lastCall = NoCall

ParserAtRest ==
    /\ doc = <<>>
    /\ parsed = <<>>

SearchAtRest ==
    /\ spc = "idle"
    /\ search = <<>>
    /\ sent = 0

CallersAtRest == getting = <<>>

ProfileAtRest ==
    /\ profile = <<>>
    /\ reply = <<>>

NamesAtRest ==
    /\ names = <<>>
    /\ matching = <<>>

-----------------------------------------------------------------------------
(* RateLimiter (utils.py)                                                  *)

\* RateLimiter(max_requests, time_window): the instance under check.
max_requests == 2
time_window == 3
\* the "+ 0.1" of wait_time, one tick
Margin == 1

\* bounds of the exploration
NumThreads == 2
MaxCalls == 5
MaxTime == 6
MaxOversleep == 1
\* the same, for the interleaved callers
PoolCalls == 3
PoolTime == 4

Threads == 1..NumThreads

\* [req_time for req_time in self.requests if now - req_time < self.time_window]
StillInWindow(reqs, n) == SelectSeq(reqs, LAMBDA r : n - r < time_window)

\* self.time_window - (now - oldest_request) + 0.1
WaitTimeOfElapsed(oldest, n) == (n - oldest) + Margin
WaitTime(oldest, n) == time_window - (n - oldest) + Margin

\* len(self.requests) >= self.max_requests
Saturated(reqs) == Len(reqs) >= max_requests

Returned(entered, at, sat, oldest) ==
    [entered |-> entered, returned |-> at, saturated |-> sat, oldest |-> oldest]

InitLimiter ==
    /\ clock = 0
    /\ requests = <<>>
    /\ pc = [t \in Threads |-> "idle"]
    /\ now = [t \in Threads |-> 0]
    /\ kept = [t \in Threads |-> <<>>]
    /\ wake = [t \in Threads |-> 0]
    /\ history = <<>>

\* time passes
Tick ==
    /\ clock < MaxTime
    /\ clock' = clock + 1
    /\ UNCHANGED <<requests, pc, now, kept, wake, history, notLimiter>>

PoolTick ==
    /\ clock < PoolTime
    /\ clock' = clock + 1
    /\ UNCHANGED <<requests, pc, now, kept, wake, history, notLimiter>>

-----------------------------------------------------------------------------
(* One caller: wait_if_needed runs from entry to return without another    *)
(* caller in between; time.sleep(wait_time) returns no earlier than asked. *)

\* the body of wait_if_needed, from `now = time.time()` to its return
Admission ==
    LET n == clock
        k == StillInWindow(requests, n)
        w == IF Saturated(k) THEN WaitTime(k[1], n) ELSE 0
    IN  /\ \E over \in 0..MaxOversleep :
              clock' = IF w > 0 THEN n + w + over ELSE n
        /\ requests' = Append(k, n)
        /\ history' = Append(history,
              Returned(n, clock', Saturated(k), IF Saturated(k) THEN k[1] ELSE n))
        /\ UNCHANGED <<pc, now, kept, wake>>

wait_if_needed ==
    /\ Len(history) < MaxCalls
    /\ clock <= MaxTime
    /\ Admission
    /\ UNCHANGED notLimiter

NextSingle == Tick \/ wait_if_needed

InitSingle == InitLimiter /\ CacheAtRest /\ ParserAtRest /\ SearchAtRest /\ NamesAtRest /\ ProfileAtRest /\ CallersAtRest

SpecSingle == InitSingle /\ [][NextSingle]_vars

-----------------------------------------------------------------------------
(* Several callers on the one shared instance (the pool workers of         *)
(* get_all_insider_companies): wait_if_needed takes no lock, so its        *)
(* statements interleave.                                                  *)

InFlight == Cardinality({t \in Threads : pc[t] # "idle"})

\* now = time.time()
Enter(t) ==
    /\ pc[t] = "idle"
    /\ Len(history) + InFlight < PoolCalls
    /\ now' = [now EXCEPT ![t] = clock]
    /\ pc' = [pc EXCEPT ![t] = "filter"]
    /\ UNCHANGED <<clock, requests, kept, wake, history, notLimiter>>

\* the list comprehension reads self.requests ...
Filter(t) ==
    /\ pc[t] = "filter"
    /\ kept' = [kept EXCEPT ![t] = StillInWindow(requests, now[t])]
    /\ pc' = [pc EXCEPT ![t] = "assign"]
    /\ UNCHANGED <<clock, requests, now, wake, history, notLimiter>>

\* ... and its result is stored into self.requests
Assign(t) ==
    /\ pc[t] = "assign"
    /\ requests' = kept[t]
    /\ pc' = [pc EXCEPT ![t] = "check"]
    /\ UNCHANGED <<clock, now, kept, wake, history, notLimiter>>

\* if len(self.requests) >= self.max_requests:
Check(t) ==
    /\ pc[t] = "check"
    /\ pc' = [pc EXCEPT ![t] = IF Saturated(requests) THEN "oldest" ELSE "append"]
    /\ UNCHANGED <<clock, requests, now, kept, wake, history, notLimiter>>

\* oldest_request = self.requests[0]; wait_time = ...; time.sleep(wait_time)
\* (self.requests[0] raises IndexError when another caller has emptied the list)
Oldest(t) ==
    /\ pc[t] = "oldest"
    /\ IF requests = <<>>
       THEN /\ pc' = [pc EXCEPT ![t] = "raised"]
            /\ UNCHANGED wake
       ELSE LET w == WaitTime(requests[1], now[t])
            IN  /\ wake' = [wake EXCEPT ![t] = IF w > 0 THEN clock + w ELSE clock]
                /\ pc' = [pc EXCEPT ![t] = "sleep"]
    /\ UNCHANGED <<clock, requests, now, kept, history, notLimiter>>

\* time.sleep returns
Wake(t) ==
    /\ pc[t] = "sleep"
    /\ clock >= wake[t]
    /\ pc' = [pc EXCEPT ![t] = "append"]
    /\ UNCHANGED <<clock, requests, now, kept, wake, history, notLimiter>>

\* self.requests.append(now), and the call returns
Record(t) ==
    /\ pc[t] = "append"
    /\ requests' = Append(requests, now[t])
    /\ history' = Append(history, Returned(now[t], clock, FALSE, now[t]))
    /\ pc' = [pc EXCEPT ![t] = "idle"]
    /\ UNCHANGED <<clock, now, kept, wake, notLimiter>>

Next ==
    \/ PoolTick
    \/ \E t \in Threads :
          \/ Enter(t)
          \/ Filter(t)
          \/ Assign(t)
          \/ Check(t)
          \/ Oldest(t)
          \/ Wake(t)
          \/ Record(t)

Init == InitLimiter /\ CacheAtRest /\ ParserAtRest /\ SearchAtRest /\ NamesAtRest /\ ProfileAtRest /\ CallersAtRest

Spec == Init /\ [][Next]_vars

-----------------------------------------------------------------------------
(* Cache (utils.py)                                                        *)

\* Cache.default_ttl, in hours
default_ttl ==
    ("form4" :> 1) @@ ("13f" :> 24) @@ ("10k" :> 168) @@ ("10q" :> 168)
        @@ ("8k" :> 1) @@ ("default" :> 4)

\* str.lower(), on the filing types in use
Lower(filing_type) == IF filing_type = "FORM4" THEN "form4" ELSE filing_type

\* self.default_ttl.get(filing_type.lower(), self.default_ttl['default'])
Ttl(filing_type) ==
    IF Lower(filing_type) \in DOMAIN default_ttl
    THEN default_ttl[Lower(filing_type)]
    ELSE default_ttl["default"]

\* bound of the exploration: the last hour the clock reaches
MaxWall == 5

\* json.dumps: a value, a list, and the key parts [name, args, kwargs items]
RECURSIVE Join(_)
Join(parts) ==
    IF parts = <<>> THEN <<>>
    ELSE IF Len(parts) = 1 THEN parts[1]
    ELSE parts[1] \o <<", ">> \o Join(Tail(parts))

JsonAtom(v) == IF v = NoneValue THEN <<"null">> ELSE <<"\"", v, "\"">>
JsonList(parts) == <<"[">> \o Join(parts) \o <<"]">>
JsonItem(item) == JsonList(<<JsonAtom(item[1]), JsonAtom(item[2])>>)

Serializable(key_parts) ==
    /\ \A i \in 1..Len(key_parts[2]) : key_parts[2][i] # Receiver
    /\ \A i \in 1..Len(key_parts[3]) : key_parts[3][i][2] # Receiver

JsonDumps(key_parts) ==
    JsonList(<<JsonAtom(key_parts[1]),
               JsonList([i \in 1..Len(key_parts[2]) |-> JsonAtom(key_parts[2][i])]),
               JsonList([i \in 1..Len(key_parts[3]) |-> JsonItem(key_parts[3][i])])>>)

\* hashlib.md5(...).hexdigest(): a digest, taken to be free of collisions
Md5(text) == <<"md5">> \o text

\* Cache._get_cache_key
_get_cache_key(key_parts) == Md5(JsonDumps(key_parts))

\* datetime.now() < entry['expires_at']
FreshAtExpiry(entry, t) == t <= entry.expires_at
Fresh(entry, t) == t < entry.expires_at

\* Cache.get: the value returned, and the cache it leaves
GetHits(c, cache_key, t) == cache_key \in DOMAIN c /\ Fresh(c[cache_key], t)

GetValue(c, cache_key, t) ==
    IF GetHits(c, cache_key, t) THEN c[cache_key].value ELSE NoneValue

GetLeaves(c, cache_key, t) ==
    IF cache_key \in DOMAIN c /\ ~Fresh(c[cache_key], t)
    THEN [k \in DOMAIN c \ {cache_key} |-> c[k]]
    ELSE c

\* Cache.set: the cache it leaves (created is a ghost field of the entry)
SetLeaves(c, cache_key, value, filing_type, t) ==
    (cache_key :> [value |-> value,
                   expires_at |-> t + Ttl(filing_type),
                   filing_type |-> filing_type,
                   created |-> t])
        @@ [k \in DOMAIN c \ {cache_key} |-> c[k]]

\* the key parts, values and filing types the direct calls are made with
KeyParts ==
    { <<"get_insider_transactions", <<"Gale Klappa", "WEC">>, <<>>>>,
      <<"get_all_public_companies", <<"agent">>, <<>>>> }
Values == {NoneValue, "result"}
FilingTypes == {"form4", "FORM4", "company_list"}

InitCache == LimiterAtRest /\ CacheAtRest /\ ParserAtRest /\ SearchAtRest /\ NamesAtRest /\ ProfileAtRest /\ CallersAtRest

\* an hour passes
WallTick ==
    /\ wall < MaxWall
    /\ wall' = wall + 1
    /\ lastGet' = NoGet
    /\ lastCall' = NoCall
    /\ UNCHANGED <<cache, stored, notCache>>

\* cache.get(key_parts, filing_type)
Get(key_parts) ==
    LET cache_key == _get_cache_key(key_parts)
        found == cache_key \in DOMAIN cache
    IN  /\ cache' = GetLeaves(cache, cache_key, wall)
        /\ lastGet' = [op |-> "get",
                       at |-> wall,
                       found |-> found,
                       created |-> IF found THEN cache[cache_key].created ELSE 0,
                       ttl |-> IF found THEN Ttl(cache[cache_key].filing_type) ELSE 0,
                       hit |-> GetHits(cache, cache_key, wall),
                       result |-> GetValue(cache, cache_key, wall),
                       removed |-> cache_key \notin DOMAIN cache']
        /\ UNCHANGED <<wall, stored, lastCall, notCache>>

\* cache.set(key_parts, value, filing_type)
Set(key_parts, value, filing_type) ==
    /\ cache' = SetLeaves(cache, _get_cache_key(key_parts), value, filing_type, wall)
    /\ lastGet' = NoGet
    /\ UNCHANGED <<wall, stored, lastCall, notCache>>

\* cache.clear()
Clear ==
    /\ cache # <<>>
    /\ cache' = <<>>
    /\ stored' = <<>>
    /\ lastGet' = NoGet
    /\ lastCall' = NoCall
    /\ UNCHANGED <<wall, notCache>>

NextCache ==
    \/ WallTick
    \/ \E key_parts \in KeyParts : Get(key_parts)
    \/ \E key_parts \in KeyParts, value \in Values, filing_type \in FilingTypes :
          Set(key_parts, value, filing_type)
    \/ Clear

SpecCache == InitCache /\ [][NextCache]_vars

-----------------------------------------------------------------------------
(* cached (utils.py): the decorator around an operation                    *)

\* the filing type each wrapped operation is decorated with
FilingTypeOf(func) ==
    CASE func = "get_insider_transactions" -> "form4"
      [] func = "resolve_person_cik" -> "person_cik"
      [] OTHER -> "company_list"

\* the order of str on the keyword names in use
KwOrder == <<"company", "person_name", "use_fulltext_search", "user_agent">>
KwRank(name) == CHOOSE i \in 1..Len(KwOrder) : KwOrder[i] = name

\* sorted(kwargs.items())
RECURSIVE InsertItem(_, _)
InsertItem(item, items) ==
    IF items = <<>> THEN <<item>>
    ELSE IF KwRank(item[1]) <= KwRank(items[1][1]) THEN <<item>> \o items
    ELSE <<items[1]>> \o InsertItem(item, Tail(items))

RECURSIVE SortedItems(_)
SortedItems(kwargs) ==
    IF kwargs = <<>> THEN <<>>
    ELSE InsertItem(kwargs[1], SortedItems(Tail(kwargs)))

\* key_parts = [func.__name__, args, sorted(kwargs.items())]
WrapperKeyPartsUnsorted(call) == <<call.func, call.args, call.kwargs>>
WrapperKeyParts(call) == <<call.func, call.args, SortedItems(call.kwargs)>>

\* the calls made: a function with keyword arguments in either order, a
\* method (its first positional argument is the receiver), a plain function
Calls ==
    { [func |-> "get_insider_transactions", args |-> <<"Gale Klappa">>,
       kwargs |-> << <<"company", "WEC">>, <<"user_agent", "agent">> >>],
      [func |-> "get_insider_transactions", args |-> <<"Gale Klappa">>,
       kwargs |-> << <<"user_agent", "agent">>, <<"company", "WEC">> >>],
      [func |-> "resolve_person_cik", args |-> <<Receiver, "Gale Klappa">>,
       kwargs |-> <<>>],
      [func |-> "get_all_public_companies", args |-> <<"agent">>,
       kwargs |-> <<>>] }

\* what the wrapped operation returns when it is invoked
Results == {NoneValue, "r1", "r2"}

\* the call with its keyword arguments as a set: the same call in any order
SameCall(call) ==
    [func |-> call.func, args |-> call.args,
     kwargs |-> {call.kwargs[i] : i \in 1..Len(call.kwargs)}]

StoredFor(call) ==
    IF SameCall(call) \in DOMAIN stored THEN stored[SameCall(call)] ELSE NoStore

\* wrapper(*args, **kwargs) of cached, the operation returning `result` if it
\* is invoked (`limiter` is a ghost: the limiter's record as the call enters)
CachedWrapper(call, result) ==
    LET key_parts == WrapperKeyParts(call)
        about == [op |-> "call", call |-> call, at |-> wall, prev |-> StoredFor(call),
                  ttl |-> Ttl(FilingTypeOf(call.func)),
                  limiter |-> <<requests, history>>]
    IN  /\ lastGet' = NoGet
        /\ IF ~Serializable(key_parts)
           THEN \* json.dumps raises TypeError inside cache.get
                /\ lastCall' = about @@ [outcome |-> "TypeError", invoked |-> FALSE,
                                         result |-> NoneValue, key |-> <<>>]
                /\ UNCHANGED <<cache, stored>>
           ELSE LET cache_key == _get_cache_key(key_parts)
                    cached_value == GetValue(cache, cache_key, wall)
                    looked == GetLeaves(cache, cache_key, wall)
                IN  IF cached_value # NoneValue
                    THEN /\ cache' = looked
                         /\ lastCall' = about @@ [outcome |-> "returned", invoked |-> FALSE,
                                                  result |-> cached_value, key |-> cache_key]
                         /\ UNCHANGED stored
                    ELSE /\ cache' = SetLeaves(looked, cache_key, result,
                                               FilingTypeOf(call.func), wall)
                         /\ stored' = (SameCall(call) :>
                                          [at |-> wall, value |-> result,
                                           key |-> cache_key, kwargs |-> call.kwargs])
                                      @@ [k \in DOMAIN stored \ {SameCall(call)} |-> stored[k]]
                         /\ lastCall' = about @@ [outcome |-> "returned", invoked |-> TRUE,
                                                  result |-> result, key |-> cache_key]

\* a call of an operation decorated with cached alone
CachedCall(call, result) ==
    /\ CachedWrapper(call, result)
    /\ UNCHANGED <<wall, notCache>>

NextCached ==
    \/ WallTick
    \/ \E call \in Calls, result \in Results : CachedCall(call, result)
    \/ Clear

SpecCached == InitCache /\ [][NextCached]_vars

\* ---- operations decorated with cached over rate_limited ----
\* @cached(filing_type=...) above @rate_limited: the cached wrapper is the
\* outer one, and the rate_limited wrapper is the `func` it invokes on a miss.
LimitedCalls ==
    { [func |-> "get_insider_transactions", args |-> <<"Gale Klappa", "WEC">>,
       kwargs |-> <<>>],
      [func |-> "get_recent_insider_activity", args |-> <<"WEC">>,
       kwargs |-> <<>>],
      [func |-> "get_all_insider_companies", args |-> <<"Gale Klappa">>,
       kwargs |-> <<>>],
      [func |-> "generate_comprehensive_insider_report", args |-> <<"Gale Klappa">>,
       kwargs |-> <<>>] }

\* the mutation: rate_limited as the outer decorator, admitting every call
LimitedBeforeLookup(invoked) == Admission

\* wrapper(*args, **kwargs) of rate_limited, reached only when cached invokes it
rate_limited(invoked) ==
    IF invoked THEN Admission ELSE UNCHANGED limiterVars

\* bounds of the exploration of the doubly decorated calls
LimitedAdmissions == 3
LimitedTime == 4
LimitedWall == 2
\* what the operation returns when it is invoked
LimitedResults == {"r1"}

\* a call of an operation decorated with both
LimitedCall(call, result) ==
    /\ Len(history) < LimitedAdmissions
    /\ clock <= LimitedTime
    /\ CachedWrapper(call, result)
    /\ rate_limited(lastCall'.invoked)
    /\ UNCHANGED <<wall, parserVars, searchVars, nameVars, profileVars, callerVars>>

\* time passes on the limiter's clock
LimitedTick ==
    /\ clock < LimitedTime
    /\ clock' = clock + 1
    /\ UNCHANGED <<requests, pc, now, kept, wake, history, notLimiter>>

\* an hour passes on the cache's clock
LimitedWallTick ==
    /\ wall < LimitedWall
    /\ wall' = wall + 1
    /\ lastGet' = NoGet
    /\ lastCall' = NoCall
    /\ UNCHANGED <<cache, stored, limiterVars, parserVars, searchVars, nameVars,
                   profileVars, callerVars>>

InitLimited == InitLimiter /\ CacheAtRest /\ ParserAtRest /\ SearchAtRest /\ NamesAtRest /\ ProfileAtRest /\ CallersAtRest

NextLimited ==
    \/ LimitedTick
    \/ LimitedWallTick
    \/ \E call \in LimitedCalls, result \in LimitedResults : LimitedCall(call, result)

SpecLimited == InitLimited /\ [][NextLimited]_vars

\* ---- Cache.get and Cache.set called from several threads ----
\* The workers of get_all_insider_companies' pool call the cached
\* get_insider_transactions, so the one Cache object is used from several
\* threads; neither method takes a lock, and a thread may be switched out
\* between any two statements of Cache.get.

\* the key all the threads use, and the value they store
shared_key_parts == <<"get_insider_transactions", <<"Gale Klappa", "WEC">>, <<>>>>
shared_key == _get_cache_key(shared_key_parts)

\* a thread outside Cache.get; `outcome` is how its last call ended
Idle(outcome, result, fresh) ==
    [at |-> "idle", entry |-> <<>>, outcome |-> outcome, result |-> result,
     fresh |-> fresh]

InitThreads ==
    /\ LimiterAtRest /\ CacheAtRest /\ ParserAtRest /\ SearchAtRest /\ NamesAtRest /\ ProfileAtRest
    /\ getting = [t \in Threads |-> Idle("none", NoneValue, TRUE)]

\* if cache_key in self.cache:
GetContains(t) ==
    /\ getting[t].at = "idle"
    /\ getting' = [getting EXCEPT ![t] =
                      IF shared_key \in DOMAIN cache
                      THEN [at |-> "read", entry |-> <<>>, outcome |-> "running",
                            result |-> NoneValue, fresh |-> TRUE]
                      ELSE Idle("returned", NoneValue, TRUE)]
    /\ UNCHANGED <<cacheVars, notCallers>>

\* entry = self.cache[cache_key]
GetRead(t) ==
    /\ getting[t].at = "read"
    /\ getting' = [getting EXCEPT ![t] =
                      IF shared_key \in DOMAIN cache
                      THEN [@ EXCEPT !.at = "compare", !.entry = <<cache[shared_key]>>]
                      ELSE Idle("KeyError", NoneValue, TRUE)]
    /\ UNCHANGED <<cacheVars, notCallers>>

\* if datetime.now() < entry['expires_at']: return entry['value']
GetCompare(t) ==
    /\ getting[t].at = "compare"
    /\ getting' = [getting EXCEPT ![t] =
                      IF Fresh(getting[t].entry[1], wall)
                      THEN Idle("returned", getting[t].entry[1].value,
                                wall < getting[t].entry[1].expires_at)
                      ELSE [@ EXCEPT !.at = "delete"]]
    /\ UNCHANGED <<cacheVars, notCallers>>

\* else: del self.cache[cache_key]; then return None
GetDelete(t) ==
    /\ getting[t].at = "delete"
    /\ IF shared_key \in DOMAIN cache
       THEN /\ cache' = [k \in DOMAIN cache \ {shared_key} |-> cache[k]]
            /\ getting' = [getting EXCEPT ![t] = Idle("returned", NoneValue, TRUE)]
       ELSE /\ getting' = [getting EXCEPT ![t] = Idle("KeyError", NoneValue, TRUE)]
            /\ UNCHANGED cache
    /\ UNCHANGED <<wall, lastGet, stored, lastCall, notCallers>>

\* cache.set(key_parts, value, 'form4') by a thread that is not inside get
ThreadSet(t) ==
    /\ getting[t].at = "idle"
    /\ cache' = SetLeaves(cache, shared_key, "result", "form4", wall)
    /\ getting' = [getting EXCEPT ![t] = Idle("stored", NoneValue, TRUE)]
    /\ UNCHANGED <<wall, lastGet, stored, lastCall, notCallers>>

\* an hour passes
ThreadsWallTick ==
    /\ wall < MaxWall
    /\ wall' = wall + 1
    /\ UNCHANGED <<cache, lastGet, stored, lastCall, getting, notCallers>>

NextThreads ==
    \/ \E t \in Threads : GetContains(t)
    \/ \E t \in Threads : GetRead(t)
    \/ \E t \in Threads : GetCompare(t)
    \/ \E t \in Threads : GetDelete(t)
    \/ \E t \in Threads : ThreadSet(t)
    \/ ThreadsWallTick

SpecThreads == InitThreads /\ [][NextThreads]_vars

-----------------------------------------------------------------------------
(* Form4Parser (form4_parser.py)                                           *)
(*                                                                         *)
(* A document text is modelled by what the parsers find in it.  text says  *)
(* what ET.fromstring does with it: it builds a tree ("wellformed"), it    *)
(* raises ParseError ("malformed"), or it raises another error             *)
(* ("unencodable": a str with a lone surrogate makes the parser raise      *)
(* UnicodeEncodeError).  An optional number is <<>> (None) or <<x>>.       *)
(* A document has one nonDerivativeTable, of transactions and holdings in  *)
(* any order, followed by one derivativeTable; each element knows its      *)
(* place in the document (at).                                             *)

NoNumber == <<>>
Truthy(number) == number # NoNumber /\ number[1] # 0

\* the numeric texts in use, with the value float() gives each
NumberOf == ("0" :> 0) @@ ("7" :> 7) @@ ("50" :> 50) @@ ("100" :> 100) @@ ("1000" :> 1000)

\* clean_number (utils.py): None for an absent or unparseable text
clean_number(text) == IF text \in DOMAIN NumberOf THEN <<NumberOf[text]>> ELSE NoNumber

\* parse_date (utils.py): None for an absent text or one in no known format
NoDate == <<>>
DateOf ==
    ("2024-01-02" :> <<2024, 1, 2>>) @@ ("01/31/2024" :> <<2024, 1, 31>>)
    @@ ("2024-06-30" :> <<2024, 6, 30>>) @@ ("2023-07-01" :> <<2023, 7, 1>>)
    @@ ("2023-06-30" :> <<2023, 6, 30>>) @@ ("2022-07-02" :> <<2022, 7, 2>>)
    @@ ("2022-07-01" :> <<2022, 7, 1>>)
parse_date(text) == IF text \in DOMAIN DateOf THEN DateOf[text] ELSE NoDate

\* TRANSACTION_CODE_MAP, and .get(code, TransactionType.OTHER)
CodeMapWithoutF ==
    ("P" :> "PURCHASE") @@ ("S" :> "SALE") @@ ("G" :> "GIFT") @@ ("C" :> "CONVERSION")
    @@ ("M" :> "EXERCISE") @@ ("D" :> "SALE") @@ ("A" :> "PURCHASE")
    @@ ("J" :> "OTHER") @@ ("K" :> "OTHER") @@ ("L" :> "OTHER") @@ ("U" :> "OTHER")
    @@ ("V" :> "OTHER") @@ ("W" :> "OTHER") @@ ("X" :> "EXERCISE") @@ ("Z" :> "OTHER")
TRANSACTION_CODE_MAP ==
    ("P" :> "PURCHASE") @@ ("S" :> "SALE") @@ ("G" :> "GIFT") @@ ("C" :> "CONVERSION")
    @@ ("M" :> "EXERCISE") @@ ("F" :> "SALE") @@ ("D" :> "SALE") @@ ("A" :> "PURCHASE")
    @@ ("J" :> "OTHER") @@ ("K" :> "OTHER") @@ ("L" :> "OTHER") @@ ("U" :> "OTHER")
    @@ ("V" :> "OTHER") @@ ("W" :> "OTHER") @@ ("X" :> "EXERCISE") @@ ("Z" :> "OTHER")
TransactionTypeOf(code) ==
    IF code \in DOMAIN TRANSACTION_CODE_MAP THEN TRANSACTION_CODE_MAP[code] ELSE "OTHER"

\* a transactionCoding element without a transactionCode text
NoCodeText == ""

\* the transaction code of an element as the structural parser reads it:
\* the default when the element has no transactionCoding, None (in no
\* table) when the coding has no code text
CodeRead(e, default) ==
    IF e.code = NoneValue THEN default
    ELSE IF e.code = NoCodeText THEN NoneValue
    ELSE e.code

\* bound of the exploration: the elements of one document
MaxElems == 2

\* a transaction element with every child present ...
CompleteElement(table) ==
    [table |-> table, tag |-> "transaction", at |-> 0,
     title |-> "Common Stock", amounts |-> TRUE, shares |-> "100",
     price |-> "50", conv |-> IF table = "derivative" THEN "7" ELSE NoneValue,
     underlying |-> IF table = "derivative" THEN "100" ELSE NoneValue,
     date |-> "2024-01-02", code |-> "S", after |-> "1000"]

\* ... and the ways one child of it is absent, zero or unparseable
ElementsOf(table) ==
    LET e == CompleteElement(table)
    IN  {e, [e EXCEPT !.title = NoneValue], [e EXCEPT !.amounts = FALSE],
         [e EXCEPT !.shares = NoneValue], [e EXCEPT !.shares = "abc"],
         [e EXCEPT !.shares = "0"],
         [e EXCEPT !.price = NoneValue], [e EXCEPT !.price = "abc"],
         [e EXCEPT !.price = "0"],
         [e EXCEPT !.date = NoneValue], [e EXCEPT !.code = NoneValue],
         [e EXCEPT !.after = NoneValue]}
    \cup (IF table = "derivative" THEN {[e EXCEPT !.conv = NoneValue]} ELSE {})

\* a nonDerivativeHolding: a title and a balance, no transaction
CompleteHolding ==
    [CompleteElement("nonDerivative") EXCEPT
        !.tag = "holding", !.amounts = FALSE, !.shares = NoneValue,
        !.price = NoneValue, !.date = NoneValue, !.code = NoneValue]

Holdings ==
    {CompleteHolding, [CompleteHolding EXCEPT !.after = "0"],
     [CompleteHolding EXCEPT !.title = NoneValue],
     [CompleteHolding EXCEPT !.after = NoneValue],
     [CompleteHolding EXCEPT !.after = "abc"]}

\* a derivativeHolding: a title, the underlying security and a balance
DerivativeHolding ==
    [CompleteElement("derivative") EXCEPT
        !.tag = "holding", !.amounts = FALSE, !.shares = NoneValue,
        !.price = NoneValue, !.date = NoneValue, !.code = NoneValue]

Elements ==
    ElementsOf("nonDerivative") \cup Holdings \cup ElementsOf("derivative")
        \cup {DerivativeHolding}

RECURSIVE SeqsUpTo(_, _)
SeqsUpTo(S, n) ==
    IF n = 0 THEN {<<>>}
    ELSE LET shorter == SeqsUpTo(S, n - 1)
         IN  shorter \cup {Append(q, x) : q \in shorter, x \in S}

\* the nonDerivativeTable comes before the derivativeTable
TablesInOrder(elems) ==
    \A i, j \in 1..Len(elems) :
        (i < j /\ elems[i].table = "derivative") => elems[j].table = "derivative"

\* each element at its place in the document
Placed(elems) == [i \in 1..Len(elems) |-> [elems[i] EXCEPT !.at = i]]

ElementLists(S, n) == {Placed(q) : q \in {s \in SeqsUpTo(S, n) : TablesInOrder(s)}}

\* the documents: any elements under a complete header, and every header
\* over at most one element
Documents ==
    [text : {"wellformed", "malformed", "unencodable"},
     soup : {"parsed"},
     issuerName : {"WEC ENERGY GROUP"},
     ownerTag : {"rptOwnerName"},
     period : {NoneValue, "01/31/2024"},
     elems : ElementLists(Elements, MaxElems)]
    \cup
    [text : {"wellformed", "malformed", "unencodable"},
     soup : {"parsed"},
     issuerName : {NoneValue, "WEC ENERGY GROUP"},
     ownerTag : {NoneValue, "rptOwnerName", "reportingOwnerName"},
     period : {"01/31/2024"},
     elems : ElementLists(Elements, 1)]
    \cup
    [text : {"malformed"},
     soup : {"failed"},
     issuerName : {"WEC ENERGY GROUP"},
     ownerTag : {"rptOwnerName"},
     period : {"01/31/2024"},
     elems : ElementLists(Elements, 1)]

\* the elements of one table, in document order
RECURSIVE InTable(_, _)
InTable(elems, table) ==
    IF elems = <<>> THEN <<>>
    ELSE IF elems[1].table = table THEN <<elems[1]>> \o InTable(Tail(elems), table)
    ELSE InTable(Tail(elems), table)

\* findall('.//nonDerivativeTransaction'), findall('.//nonDerivativeHolding')
WithTag(elems, tag) == SelectSeq(elems, LAMBDA e : e.tag = tag)

NoInfo == <<>>

\* _extract_filing_info: <<info>>, or <<>> for None: None unless company_name and insider_name are found;
\* the filer name is read from rptOwnerName or reportingOwnerName
_extract_filing_info(d) ==
    IF d.issuerName # NoneValue /\ d.ownerTag # NoneValue
    THEN <<[company_name |-> d.issuerName, insider_name |-> "KLAPPA GALE E",
            period_of_report |-> parse_date(d.period)]>>
    ELSE NoInfo

Skipped == <<>>

\* total_value = shares * price_per_share if price_per_share else None
total_value(shares, price) ==
    IF Truthy(price) THEN <<shares[1] * price[1]>> ELSE NoNumber

\* trans_date: parse_date of the element's date, else the period of report
TransDate(e, filing_info) ==
    IF e.date # NoneValue THEN parse_date(e.date) ELSE filing_info.period_of_report

\* _parse_non_derivative_transaction: <<record>>, or <<>> for None
_parse_non_derivative_transaction(e, filing_info) ==
    LET shares == clean_number(e.shares)
        price_per_share == clean_number(e.price)
    IN  IF e.title = NoneValue \/ ~e.amounts \/ shares = NoNumber
        THEN Skipped
        ELSE <<[path |-> "nonDerivative", at |-> e.at, tag |-> "transaction",
                security_title |-> e.title,
                transaction_date |-> TransDate(e, filing_info),
                transaction_type |-> TransactionTypeOf(CodeRead(e, "P")),
                shares |-> shares,
                price_per_share |-> price_per_share,
                total_value |-> total_value(shares, price_per_share),
                shares_owned_after |-> IF e.after = NoneValue THEN <<0>>
                                       ELSE clean_number(e.after)]>>

\* _parse_non_derivative_holding: <<record>>, or <<>> for None
_parse_non_derivative_holding(e, filing_info) ==
    LET shares_owned == clean_number(e.after)
    IN  IF e.title = NoneValue \/ e.after = NoneValue \/ shares_owned = NoNumber
        THEN Skipped
        ELSE <<[path |-> "nonDerivative", at |-> e.at, tag |-> "holding",
                security_title |-> e.title,
                transaction_date |-> filing_info.period_of_report,
                transaction_type |-> "OTHER",
                shares |-> <<0>>,
                price_per_share |-> NoNumber,
                total_value |-> NoNumber,
                shares_owned_after |-> shares_owned]>>

\* _parse_derivative_transaction: the recorded price is
\* price_per_share or conversion_price
_parse_derivative_transaction(e, filing_info) ==
    LET shares == clean_number(e.shares)
        price_per_share == clean_number(e.price)
        conversion_price == clean_number(e.conv)
        underlying_shares == clean_number(e.underlying)
    IN  IF e.title = NoneValue \/ ~e.amounts \/ shares = NoNumber
        THEN Skipped
        ELSE <<[path |-> "derivative", at |-> e.at, tag |-> "transaction",
                security_title |-> e.title \o " (Derivative)",
                transaction_date |-> TransDate(e, filing_info),
                transaction_type |-> TransactionTypeOf(CodeRead(e, "M")),
                shares |-> shares,
                price_per_share |-> IF Truthy(price_per_share) THEN price_per_share
                                    ELSE conversion_price,
                total_value |-> total_value(shares, price_per_share),
                shares_owned_after |-> IF Truthy(underlying_shares)
                                       THEN underlying_shares ELSE <<0>>]>>

\* for trans_elem in trans_elements: a failed element is skipped
RECURSIVE EachNonDerivativeUntilFailure(_, _)
EachNonDerivativeUntilFailure(elems, filing_info) ==
    IF elems = <<>> THEN <<>>
    ELSE LET first == _parse_non_derivative_transaction(elems[1], filing_info)
         IN  IF first = Skipped THEN <<>>
             ELSE first \o EachNonDerivativeUntilFailure(Tail(elems), filing_info)

RECURSIVE EachNonDerivative(_, _)
EachNonDerivative(elems, filing_info) ==
    IF elems = <<>> THEN <<>>
    ELSE _parse_non_derivative_transaction(elems[1], filing_info)
             \o EachNonDerivative(Tail(elems), filing_info)

\* for holding_elem in non_deriv_table.findall('.//nonDerivativeHolding')
RECURSIVE EachHolding(_, _)
EachHolding(elems, filing_info) ==
    IF elems = <<>> THEN <<>>
    ELSE _parse_non_derivative_holding(elems[1], filing_info)
             \o EachHolding(Tail(elems), filing_info)

RECURSIVE EachDerivative(_, _)
EachDerivative(elems, filing_info) ==
    IF elems = <<>> THEN <<>>
    ELSE _parse_derivative_transaction(elems[1], filing_info)
             \o EachDerivative(Tail(elems), filing_info)

\* _extract_non_derivative_transactions: the transactions of the table, and
\* its holdings if no transaction gave a record
TransactionsAndHoldings(table, filing_info) ==
    EachNonDerivative(WithTag(table, "transaction"), filing_info)
        \o EachHolding(WithTag(table, "holding"), filing_info)
_extract_non_derivative_transactions(table, filing_info) ==
    LET transactions == EachNonDerivative(WithTag(table, "transaction"), filing_info)
    IN  IF transactions = <<>>
        THEN EachHolding(WithTag(table, "holding"), filing_info)
        ELSE transactions

\* _extract_derivative_transactions
_extract_derivative_transactions(table, filing_info) ==
    EachDerivative(WithTag(table, "transaction"), filing_info)

\* the loop body of _parse_with_beautifulsoup: float() of the share count,
\* of the price when the element has one, the date, code, title and balance
\* read without a check; any failure skips the element
FallbackTransaction(e) ==
    LET shares == clean_number(e.shares)
        price_value == clean_number(e.price)
    IN  IF \/ ~e.amounts \/ shares = NoNumber
           \/ (e.price # NoneValue /\ price_value = NoNumber)
           \/ e.date = NoneValue \/ e.code = NoneValue
           \/ e.title = NoneValue \/ clean_number(e.after) = NoNumber
        THEN Skipped
        ELSE <<[path |-> "fallback", at |-> e.at, tag |-> "transaction",
                security_title |-> e.title,
                transaction_date |-> parse_date(e.date),
                transaction_type |-> TransactionTypeOf(e.code),
                shares |-> shares,
                price_per_share |-> price_value,
                total_value |-> total_value(shares, price_value),
                shares_owned_after |-> clean_number(e.after)]>>

RECURSIVE EachFallback(_)
EachFallback(elems) ==
    IF elems = <<>> THEN <<>>
    ELSE FallbackTransaction(elems[1]) \o EachFallback(Tail(elems))

Listed(records, fallback) == [kind |-> "list", records |-> records, fallback |-> fallback]
Raised(error) == [kind |-> "raise", error |-> error]

\* _parse_with_beautifulsoup: everything inside try/except Exception; the
\* filer name is read from rptOwnerName alone
_parse_with_beautifulsoup(d) ==
    IF d.soup = "failed" THEN Listed(<<>>, TRUE)
    ELSE IF d.issuerName = NoneValue \/ d.ownerTag # "rptOwnerName" THEN Listed(<<>>, TRUE)
    ELSE Listed(EachFallback(WithTag(InTable(d.elems, "nonDerivative"), "transaction")),
                TRUE)

\* parse_form4_xml: only ET.ParseError is caught
CaughtByFallback(d) == d.text = "malformed"

parse_form4_xml(d) ==
    IF CaughtByFallback(d) THEN _parse_with_beautifulsoup(d)
    ELSE IF d.text # "wellformed" THEN Raised("UnicodeEncodeError")
    ELSE IF _extract_filing_info(d) = NoInfo THEN Listed(<<>>, FALSE)
    ELSE LET filing_info == _extract_filing_info(d)[1]
         IN  Listed(_extract_non_derivative_transactions(
                        InTable(d.elems, "nonDerivative"), filing_info)
                    \o _extract_derivative_transactions(
                        InTable(d.elems, "derivative"), filing_info), FALSE)

InitParser ==
    /\ LimiterAtRest /\ CacheAtRest /\ SearchAtRest /\ NamesAtRest /\ ProfileAtRest /\ CallersAtRest
    /\ doc \in Documents
    /\ parsed = <<>>

\* parser.parse_form4_xml(xml_content, accession)
Parse ==
    /\ parsed = <<>>
    /\ parsed' = parse_form4_xml(doc)
    /\ UNCHANGED <<doc, notParser>>

NextParser == Parse

SpecParser == InitParser /\ [][NextParser]_vars

\* the transaction codes of Form 4, one in no table, an empty code text and
\* an element without transactionCoding
Codes ==
    {"P", "S", "G", "C", "M", "F", "D", "A", "J", "K", "L", "U", "V", "W", "X", "Z",
     "Q", "s", NoCodeText, NoneValue}

\* documents of one transaction, of any code, in either table
CodeDocuments ==
    {[text |-> t, soup |-> "parsed", issuerName |-> "WEC ENERGY GROUP",
      ownerTag |-> "rptOwnerName", period |-> "01/31/2024",
      elems |-> Placed(<<[CompleteElement(table) EXCEPT !.code = c]>>)] :
        t \in {"wellformed", "malformed"},
        table \in {"nonDerivative", "derivative"},
        c \in Codes}

InitCodes ==
    /\ LimiterAtRest /\ CacheAtRest /\ SearchAtRest /\ NamesAtRest /\ ProfileAtRest /\ CallersAtRest
    /\ doc \in CodeDocuments
    /\ parsed = <<>>

SpecCodes == InitCodes /\ [][NextParser]_vars

-----------------------------------------------------------------------------
(* The requests of one cross-company search (cross_company_search.py,      *)
(* sec_fulltext_search.py, insider_tools.py, form4_parser.py)              *)
(*                                                                         *)
(* One call of get_all_insider_companies on a cold cache, step by step.    *)
(* Every @rate_limited function runs the body of wait_if_needed on entry;  *)
(* sent counts session.post, session.get and requests.get of these files.  *)
(* The worker pool of the brute-force path is run one company at a time:   *)
(* the count of requests and of admissions does not depend on the order.   *)

notSearch == <<cacheVars, parserVars, nameVars, profileVars, callerVars>>

\* for name_variant in name_variations[:3]
TopVariations == 3

\* bounds of the exploration
MaxVariations == 4
MaxCompanies == 2
MaxUrls == 4
MaxFilings == 2

Min(a, b) == IF a < b THEN a ELSE b
Max(a, b) == IF a > b THEN a ELSE b

\* search_form4_by_person(..., limit: int = 200)
ResultLimit == 200

\* bound of the exploration: the hits of one index query
MaxHits == 1

\* a hit of the index: its accession number (adsh) and filing date
\* (file_date), either of which the index may leave out, and the name
\* variation that was queried (reporting_owner)
FileDate == ("a1" :> "2023-05-05") @@ ("a2" :> "2024-01-02") @@ (NoneValue :> "2024-01-02")
DateRank == ("2023-05-05" :> 1) @@ ("2024-01-02" :> 2)
Hits ==
    {[accession_number |-> a, filing_date |-> IF dated THEN FileDate[a] ELSE NoneValue,
      reporting_owner |-> 0] : a \in {NoneValue, "a1", "a2"}, dated \in BOOLEAN}

\* the results of one query, hit by hit
QueriedBy(results, variant) ==
    [i \in 1..Len(results) |-> [results[i] EXCEPT !.reporting_owner = variant]]

\* the locals of a search
NewSearch(caller, ft, nv) ==
    [caller |-> caller, use_fulltext_search |-> ft, name_variations |-> nv,
     queries |-> 0, asked |-> 0, failed |-> 0,
     all_results |-> <<>>, encountered |-> <<>>, results |-> <<>>,
     companies |-> 0, listed |-> <<>>, urls |-> <<>>, processed |-> <<>>,
     index_fetched |-> FALSE, fetched |-> <<>>, extracted |-> <<>>,
     result |-> NoneValue, search_method |-> NoneValue]

InitSearch == LimiterAtRest /\ CacheAtRest /\ ParserAtRest /\ SearchAtRest /\ NamesAtRest /\ ProfileAtRest /\ CallersAtRest

\* @rate_limited get_all_insider_companies(person_name, use_fulltext_search)
get_all_insider_companies ==
    /\ spc = "idle"
    /\ Admission
    /\ \E ft \in BOOLEAN, nv \in 1..MaxVariations :
          /\ search' = NewSearch("get_all_insider_companies", ft, nv)
          /\ spc' = IF ft THEN "fulltext" ELSE "directory"
    /\ UNCHANGED <<sent, notSearch>>

\* @rate_limited search_form4_by_person: one admission for the whole loop
search_form4_by_person ==
    /\ spc = "fulltext"
    /\ Admission
    /\ search' = [search EXCEPT !.queries = Min(search.name_variations, TopVariations)]
    /\ spc' = "query"
    /\ UNCHANGED <<sent, notSearch>>

\* the accession numbers seen
Accessions(hits) == {hits[i].accession_number : i \in 1..Len(hits)}

\* if accession and accession not in seen_accession_numbers: append
AppendAll(all_results, results) == all_results \o results
RECURSIVE Deduplicated(_, _)
Deduplicated(all_results, results) ==
    IF results = <<>> THEN all_results
    ELSE LET accession == results[1].accession_number
         IN  IF accession # NoneValue /\ accession \notin Accessions(all_results)
             THEN Deduplicated(Append(all_results, results[1]), Tail(results))
             ELSE Deduplicated(all_results, Tail(results))

\* one turn of the loop over name_variations[:3]: _perform_search does
\* session.post and gives the hits, or [] when the request or the decoding
\* of the response fails; the hits are merged
_perform_search ==
    /\ spc = "query"
    /\ search.queries > 0
    /\ sent' = sent + 1
    /\ \E ok \in BOOLEAN, hits \in SeqsUpTo(Hits, MaxHits) :
          /\ ~ok => hits = <<>>
          /\ LET results == QueriedBy(hits, search.asked + 1)
             IN  search' = [search EXCEPT
                    !.queries = @ - 1,
                    !.asked = @ + 1,
                    !.failed = IF ok THEN @ ELSE @ + 1,
                    !.encountered = @ \o results,
                    !.all_results = Deduplicated(@, results)]
    /\ UNCHANGED <<spc, limiterVars, notSearch>>

\* all_results.sort(key=lambda x: x.get('filing_date', ''), reverse=True)
\* compares the dates: it raises on two or more hits when a date is None
Sortable(hits) ==
    Len(hits) < 2 \/ \A i \in 1..Len(hits) : hits[i].filing_date # NoneValue

\* a stable sort, latest date first
RECURSIVE InsertByDate(_, _)
InsertByDate(sorted, hit) ==
    IF sorted = <<>> THEN <<hit>>
    ELSE IF DateRank[sorted[1].filing_date] >= DateRank[hit.filing_date]
         THEN <<sorted[1]>> \o InsertByDate(Tail(sorted), hit)
         ELSE <<hit>> \o sorted

RECURSIVE SortedByDate(_)
SortedByDate(hits) ==
    IF Len(hits) < 2 THEN hits
    ELSE InsertByDate(SortedByDate(SubSeq(hits, 1, Len(hits) - 1)), hits[Len(hits)])

\* all_results[:limit]
Take(hits, limit) == SubSeq(hits, 1, Min(Len(hits), limit))

\* search_form4_by_person returns to a caller other than the search
ReturnResults ==
    /\ spc = "query"
    /\ search.queries = 0
    /\ search.caller # "get_all_insider_companies"
    /\ Sortable(search.all_results)
    /\ search' = [search EXCEPT !.results = Take(SortedByDate(search.all_results), ResultLimit)]
    /\ spc' = "returned"
    /\ UNCHANGED <<sent, limiterVars, notSearch>>

\* the sort raises TypeError, and nothing in search_form4_by_person catches it
ResultsUnsortable ==
    /\ spc = "query"
    /\ search.queries = 0
    /\ search.caller # "get_all_insider_companies"
    /\ ~Sortable(search.all_results)
    /\ spc' = "raised"
    /\ UNCHANGED <<search, sent, limiterVars, notSearch>>

\* get_companies_for_person groups the sorted hits by company (each filing
\* is of one company) and returns the companies
get_companies_for_person ==
    /\ spc = "query"
    /\ search.queries = 0
    /\ search.caller = "get_all_insider_companies"
    /\ Sortable(search.all_results)
    /\ search' = [search EXCEPT
          !.companies = Cardinality(Accessions(Take(SortedByDate(search.all_results), ResultLimit))),
          !.all_results = <<>>, !.encountered = <<>>]
    /\ spc' = "company"
    /\ UNCHANGED <<sent, limiterVars, notSearch>>

\* except Exception: use_fulltext_search = False; companies_with_activity = []
FullTextFailed ==
    /\ spc = "query"
    /\ search.queries = 0
    /\ search.caller = "get_all_insider_companies"
    /\ ~Sortable(search.all_results)
    /\ search' = [search EXCEPT !.use_fulltext_search = FALSE, !.companies = 0,
                                !.all_results = <<>>, !.encountered = <<>>]
    /\ spc' = "directory"
    /\ UNCHANGED <<sent, limiterVars, notSearch>>

\* get_all_public_companies: requests.get, not rate limited; [] on failure,
\* and then the error result
get_all_public_companies ==
    /\ spc = "directory"
    /\ sent' = sent + 1
    /\ \E listed \in 0..MaxCompanies :
          IF listed = 0
          THEN /\ search' = [search EXCEPT !.result = "error"]
               /\ spc' = "done"
          ELSE /\ search' = [search EXCEPT !.companies = listed]
               /\ spc' = "company"
    /\ UNCHANGED <<limiterVars, notSearch>>

\* the filing URLs the lister can give, one per filing directory: index
\* pages and .xml documents
Urls ==
    { [filing |-> "a1", xml |-> FALSE],
      [filing |-> "a2", xml |-> FALSE],
      [filing |-> "a3", xml |-> TRUE] }

\* the URLs of a list
UrlsOf(urls) == {urls[i] : i \in 1..Len(urls)}

\* list(dict.fromkeys(filing_urls))
WithDuplicates(filing_urls) == filing_urls
RECURSIVE fromkeys(_)
fromkeys(filing_urls) ==
    IF filing_urls = <<>> THEN <<>>
    ELSE LET n == Len(filing_urls)
             front == fromkeys(SubSeq(filing_urls, 1, n - 1))
         IN  IF filing_urls[n] \in UrlsOf(front) THEN front
             ELSE Append(front, filing_urls[n])

\* xml_url of a filing URL: the document the index page names (or doc1.xml)
\* under the directory of the filing, or the URL itself
xml_url(filing_url) == [filing_url EXCEPT !.xml = TRUE]

\* @rate_limited get_insider_transactions for a company: the lister gives
\* the filing URLs, duplicates are dropped, the first MaxFilings are kept
get_insider_transactions ==
    /\ spc = "company"
    /\ search.companies > 0
    /\ Admission
    /\ \E filing_urls \in SeqsUpTo(Urls, MaxUrls) :
          search' = [search EXCEPT !.companies = @ - 1,
                                   !.listed = filing_urls,
                                   !.urls = Take(fromkeys(filing_urls), MaxFilings),
                                   !.processed = <<>>,
                                   !.index_fetched = FALSE,
                                   !.fetched = <<>>,
                                   !.extracted = <<>>]
    /\ spc' = "filing"
    /\ UNCHANGED <<sent, notSearch>>

\* @rate_limited fetch_filing_content of the index page of the filing at
\* the head of the list
FetchIndex ==
    /\ spc = "filing"
    /\ search.urls # <<>>
    /\ ~Head(search.urls).xml
    /\ ~search.index_fetched
    /\ Admission
    /\ sent' = sent + 1
    /\ search' = [search EXCEPT !.processed = Append(@, Head(search.urls)),
                                !.index_fetched = TRUE,
                                !.fetched = Append(@, Head(search.urls))]
    /\ UNCHANGED <<spc, notSearch>>

\* @rate_limited fetch_filing_content of xml_url, and parse_form4_xml of
\* the content when it came and holds the name of the person
fetch_filing_content ==
    /\ spc = "filing"
    /\ search.urls # <<>>
    /\ Head(search.urls).xml \/ search.index_fetched
    /\ Admission
    /\ sent' = sent + 1
    /\ \E xml_content \in BOOLEAN, name_found \in BOOLEAN :
          search' = [search EXCEPT
              !.processed = IF search.index_fetched THEN @
                            ELSE Append(@, Head(search.urls)),
              !.index_fetched = FALSE,
              !.fetched = Append(@, xml_url(Head(search.urls))),
              !.extracted = IF xml_content /\ name_found
                            THEN Append(@, xml_url(Head(search.urls))) ELSE @,
              !.urls = Tail(@)]
    /\ UNCHANGED <<spc, notSearch>>

\* the filings of the company are done, search_company returns
NextCompany ==
    /\ spc = "filing"
    /\ search.caller = "get_all_insider_companies"
    /\ search.urls = <<>>
    /\ spc' = "company"
    /\ UNCHANGED <<search, sent, limiterVars, notSearch>>

\* get_insider_transactions called as a tool returns its result
ReturnTransactions ==
    /\ spc = "filing"
    /\ search.caller = "get_insider_transactions"
    /\ search.urls = <<>>
    /\ search' = [search EXCEPT !.result = "transactions"]
    /\ spc' = "done"
    /\ UNCHANGED <<sent, limiterVars, notSearch>>

\* the result is built and returned:
\* "search_method": "fulltext" if use_fulltext_search else "brute-force"
ReturnCompanies ==
    /\ spc = "company"
    /\ search.companies = 0
    /\ search' = [search EXCEPT
          !.result = "companies",
          !.search_method = IF search.use_fulltext_search THEN "fulltext"
                            ELSE "brute-force"]
    /\ spc' = "done"
    /\ UNCHANGED <<sent, limiterVars, notSearch>>

NextSearch ==
    \/ get_all_insider_companies
    \/ search_form4_by_person
    \/ _perform_search
    \/ get_companies_for_person
    \/ FullTextFailed
    \/ get_all_public_companies
    \/ get_insider_transactions
    \/ FetchIndex
    \/ fetch_filing_content
    \/ NextCompany
    \/ ReturnCompanies

SpecSearch == InitSearch /\ [][NextSearch]_vars

\* get_insider_transactions called as a tool, with a company
InitEntity ==
    /\ LimiterAtRest /\ CacheAtRest /\ ParserAtRest /\ NamesAtRest /\ ProfileAtRest /\ CallersAtRest
    /\ spc = "company"
    /\ search = [NewSearch("get_insider_transactions", FALSE, 0)
                    EXCEPT !.companies = 1]
    /\ sent = 0

NextEntity ==
    \/ get_insider_transactions
    \/ FetchIndex
    \/ fetch_filing_content
    \/ ReturnTransactions

SpecEntity == InitEntity /\ [][NextEntity]_vars

\* search_form4_by_person called on its own (as find_person_cik calls it)
InitIndex ==
    /\ LimiterAtRest /\ CacheAtRest /\ ParserAtRest /\ NamesAtRest /\ ProfileAtRest /\ CallersAtRest
    /\ spc = "fulltext"
    /\ search \in {NewSearch("find_person_cik", TRUE, nv) : nv \in 1..MaxVariations}
    /\ sent = 0

NextIndex ==
    \/ search_form4_by_person
    \/ _perform_search
    \/ ReturnResults
    \/ ResultsUnsortable

SpecIndex == InitIndex /\ [][NextIndex]_vars

\* ---- the brute-force strategy: search_company on a pool of workers ----

max_workers == 2
MaxDirectory == 3

\* an entry of the company list: its ticker, its cik_str as a number (as
\* company_tickers.json has it) or as text, what get_insider_transactions
\* for the ticker does, and whether its summary has a date range
Entries ==
    { e \in [ ticker : {"", "T"},
              cik_str : {"number", "text"},
              retrieval : {"raises", "below", "enough"},
              last : {NoneValue, "2024-01-02"} ] :
        e.retrieval # "enough" => e.last = NoneValue }

\* the futures of executor.submit(search_company, company), the futures
\* in the order of their completion, and the loop over as_completed
NewPool(company_list) ==
    [ caller |-> "get_all_insider_companies",
      use_fulltext_search |-> FALSE,
      company_list |-> company_list,
      future |-> [i \in 1..Len(company_list) |-> "pending"],
      finished |-> <<>>,
      completed |-> 0,
      companies_with_activity |-> <<>>,
      companies |-> <<>>,
      total_companies |-> 0,
      result |-> NoneValue,
      search_method |-> NoneValue ]

InitExhaustive ==
    /\ LimiterAtRest /\ CacheAtRest /\ ParserAtRest /\ NamesAtRest /\ ProfileAtRest /\ CallersAtRest
    /\ spc = "pool"
    /\ search \in {NewPool(company_list) :
                     company_list \in SeqsUpTo(Entries, MaxDirectory) \ {<<>>}}
    /\ sent = 0

\* the futures in a state
Futures(state) == {i \in DOMAIN search.future : search.future[i] = state}

\* a free worker takes the next submitted call from the queue
WorkerTakes ==
    /\ spc = "pool"
    /\ Futures("pending") # {}
    /\ Cardinality(Futures("running")) < max_workers
    /\ LET i == CHOOSE k \in Futures("pending") :
                    \A other \in Futures("pending") : k <= other
       IN  search' = [search EXCEPT !.future[i] = "running"]
    /\ UNCHANGED <<spc, sent, limiterVars, notSearch>>

\* search_company(company_info): the strip() of a cik_str that is a number
\* raises before the try; an empty ticker gives None; otherwise the
\* @rate_limited get_insider_transactions runs, and its summary is returned
\* if the count reaches min_transactions
search_company ==
    /\ spc = "pool"
    /\ \E i \in Futures("running") :
          LET company_info == search.company_list[i]
              outcome == IF company_info.cik_str = "number" THEN "raised"
                         ELSE IF company_info.ticker = "" THEN "none"
                         ELSE IF company_info.retrieval = "enough" THEN "summary"
                         ELSE "none"
          IN  /\ search' = [search EXCEPT !.future[i] = outcome,
                                          !.finished = Append(@, i)]
              /\ IF company_info.cik_str = "text" /\ company_info.ticker # ""
                 THEN Admission
                 ELSE UNCHANGED limiterVars
    /\ UNCHANGED <<spc, sent, notSearch>>

\* one turn of the loop over as_completed: future.result() is appended if
\* it is a summary, and its exception is logged
as_completed ==
    /\ spc = "pool"
    /\ search.completed < Len(search.finished)
    /\ LET i == search.finished[search.completed + 1]
       IN  search' = [search EXCEPT
              !.completed = @ + 1,
              !.companies_with_activity =
                  IF search.future[i] = "summary" THEN Append(@, i) ELSE @]
    /\ UNCHANGED <<spc, sent, limiterVars, notSearch>>

\* companies_with_activity.sort(key=lambda x: x.last_transaction_date or
\* date.min, reverse=True)
SortedByLast(summaries, company_list) ==
    LET Dated(i) == company_list[i].last # NoneValue
        Undated(i) == company_list[i].last = NoneValue
    IN  SelectSeq(summaries, Dated) \o SelectSeq(summaries, Undated)

\* the pool is left, the summaries are sorted and the result is returned
ReturnProfile ==
    /\ spc = "pool"
    /\ search.completed = Len(search.company_list)
    /\ LET companies == SortedByLast(search.companies_with_activity,
                                     search.company_list)
       IN  search' = [search EXCEPT
              !.companies = companies,
              !.total_companies = Len(companies),
              !.result = "companies",
              !.search_method = "brute-force"]
    /\ spc' = "done"
    /\ UNCHANGED <<sent, limiterVars, notSearch>>

NextExhaustive ==
    \/ WorkerTakes
    \/ search_company
    \/ as_completed
    \/ ReturnProfile

SpecExhaustive == InitExhaustive /\ [][NextExhaustive]_vars

-----------------------------------------------------------------------------
(* IntelligentNameMatcher (name_matching.py)                               *)
(*                                                                         *)
(* A name is the sequence of its whitespace-separated items, each a word   *)
(* and the punctuation mark written after it ("" for none).  The string    *)
(* normalize_name returns is the sequence of its words.                    *)

prefixes ==
    {"mr", "mrs", "ms", "dr", "prof", "sir", "dame", "lord", "lady",
     "rev", "father", "sister", "brother"}

suffixes ==
    {"jr", "sr", "ii", "iii", "iv", "esq", "md", "phd", "jd", "cpa",
     "cfa", "mba", "pe", "rn"}

nickname_map ==
    ("bill" :> "william") @@ ("billy" :> "william")
    @@ ("will" :> "william") @@ ("bob" :> "robert")
    @@ ("bobby" :> "robert") @@ ("rob" :> "robert")
    @@ ("robbie" :> "robert") @@ ("dick" :> "richard")
    @@ ("rick" :> "richard") @@ ("ricky" :> "richard")
    @@ ("rich" :> "richard") @@ ("jim" :> "james") @@ ("jimmy" :> "james")
    @@ ("jamie" :> "james") @@ ("mike" :> "michael")
    @@ ("micky" :> "michael") @@ ("mickey" :> "michael")
    @@ ("dave" :> "david") @@ ("davey" :> "david") @@ ("steve" :> "steven")
    @@ ("stevie" :> "steven") @@ ("chris" :> "christopher")
    @@ ("christi" :> "christopher") @@ ("dan" :> "daniel")
    @@ ("danny" :> "daniel") @@ ("tom" :> "thomas")
    @@ ("tommy" :> "thomas") @@ ("tony" :> "anthony")
    @@ ("ant" :> "anthony") @@ ("joe" :> "joseph") @@ ("joey" :> "joseph")
    @@ ("ben" :> "benjamin") @@ ("benny" :> "benjamin")
    @@ ("sam" :> "samuel") @@ ("sammy" :> "samuel")
    @@ ("matt" :> "matthew") @@ ("matty" :> "matthew")
    @@ ("nick" :> "nicholas") @@ ("nicky" :> "nicholas")
    @@ ("andy" :> "andrew") @@ ("drew" :> "andrew")
    @@ ("greg" :> "gregory") @@ ("greggy" :> "gregory")
    @@ ("pat" :> "patricia") @@ ("patty" :> "patricia")
    @@ ("patti" :> "patricia") @@ ("liz" :> "elizabeth")
    @@ ("beth" :> "elizabeth") @@ ("betty" :> "elizabeth")
    @@ ("betsy" :> "elizabeth") @@ ("sue" :> "susan")
    @@ ("susie" :> "susan") @@ ("suzy" :> "susan")
    @@ ("kathy" :> "katherine") @@ ("kate" :> "katherine")
    @@ ("katie" :> "katherine") @@ ("kit" :> "katherine")
    @@ ("jen" :> "jennifer") @@ ("jenny" :> "jennifer")
    @@ ("jenn" :> "jennifer") @@ ("amy" :> "amelia") @@ ("mel" :> "amelia")
    @@ ("melly" :> "amelia")

\* str.lower() of the words in use
LowerWord ==
    ("Gale" :> "gale") @@ ("Klappa" :> "klappa") @@ ("KLAPPA" :> "klappa")
    @@ ("E" :> "e") @@ ("John" :> "john") @@ ("Smith" :> "smith")
    @@ ("Dr" :> "dr") @@ ("Jr" :> "jr") @@ ("Bill" :> "bill")
    @@ ("gale" :> "gale") @@ ("klappa" :> "klappa") @@ ("e" :> "e")
    @@ ("john" :> "john") @@ ("smith" :> "smith") @@ ("dr" :> "dr")
    @@ ("jr" :> "jr") @@ ("bill" :> "bill") @@ ("william" :> "william")

\* the characters of a lower-case word
Chars ==
    ("gale" :> <<"g", "a", "l", "e">>) @@ ("klappa" :> <<"k", "l", "a", "p", "p", "a">>)
    @@ ("e" :> <<"e">>) @@ ("john" :> <<"j", "o", "h", "n">>)
    @@ ("smith" :> <<"s", "m", "i", "t", "h">>) @@ ("dr" :> <<"d", "r">>)
    @@ ("jr" :> <<"j", "r">>) @@ ("bill" :> <<"b", "i", "l", "l">>)
    @@ ("william" :> <<"w", "i", "l", "l", "i", "a", "m">>)

Item(word, punct) == [word |-> word, punct |-> punct]

\* the items of a string of plain words, as ' '.join(words) reads back
Text(words) == [i \in 1..Len(words) |-> Item(words[i], "")]

\* name.lower()
Lowered(name) == [i \in 1..Len(name) |-> Item(LowerWord[name[i].word], name[i].punct)]

\* re.sub(r'[.,;:!?]', '', normalized)
Unpunctuated(name) == [i \in 1..Len(name) |-> Item(name[i].word, "")]

\* ',' in normalized
HasComma(name) == \E i \in 1..Len(name) : name[i].punct = ","

\* the items up to and with the first one that carries a comma
RECURSIVE UpToComma(_)
UpToComma(name) ==
    IF name = <<>> THEN <<>>
    ELSE IF name[1].punct = "," THEN <<name[1]>>
    ELSE <<name[1]>> \o UpToComma(Tail(name))

\* parts = normalized.split(','); f"{' '.join(parts[1].split())} {parts[0]}"
LastFirst(name) ==
    LET last_name == UpToComma(name)
        rest == SubSeq(name, Len(last_name) + 1, Len(name))
        first_parts == UpToComma(rest)
    IN  first_parts \o last_name

\* while words and words[0] in self.prefixes: words.pop(0)
RECURSIVE WithoutPrefixes(_)
WithoutPrefixes(words) ==
    IF words # <<>> /\ words[1] \in prefixes THEN WithoutPrefixes(Tail(words))
    ELSE words

\* while words and words[-1] in self.suffixes: words.pop()
RECURSIVE WithoutSuffixes(_)
WithoutSuffixes(words) ==
    IF words # <<>> /\ words[Len(words)] \in suffixes
    THEN WithoutSuffixes(SubSeq(words, 1, Len(words) - 1))
    ELSE words

\* [word for word in words if len(word) > 1]
WithoutInitials(words) == SelectSeq(words, LAMBDA word : Len(Chars[word]) > 1)

\* [self.nickname_map.get(word, word) for word in words]
FullNames(words) ==
    [i \in 1..Len(words) |->
        IF words[i] \in DOMAIN nickname_map THEN nickname_map[words[i]] ELSE words[i]]

\* normalize_name: punctuation is removed before the comma is looked for
normalize_name(name) ==
    IF name = <<>> THEN <<>>
    ELSE LET normalized == Unpunctuated(Lowered(name))
             ordered == IF HasComma(normalized) THEN LastFirst(normalized) ELSE normalized
             words == [i \in 1..Len(ordered) |-> ordered[i].word]
         IN  FullNames(WithoutInitials(WithoutSuffixes(WithoutPrefixes(words))))

\* bound of the exploration: the items of a name
MaxItems == 3

NameWords == {"Gale", "KLAPPA", "E", "Dr", "Jr", "Bill"}
NameItems == {Item(w, p) : w \in NameWords, p \in {"", ".", ","}}
NameTexts == SeqsUpTo(NameItems, MaxItems)

InitNames ==
    /\ LimiterAtRest /\ CacheAtRest /\ ParserAtRest /\ SearchAtRest /\ ProfileAtRest /\ CallersAtRest
    /\ names \in {<<name>> : name \in NameTexts}
    /\ matching = <<>>

\* name_matcher.normalize_name(name), and again on what it returned
NormalizeName ==
    /\ matching = <<>>
    /\ LET normalized == normalize_name(names[1])
       IN  matching' = [op |-> "normalize_name", normalized |-> normalized,
                        again |-> normalize_name(Text(normalized))]
    /\ UNCHANGED <<names, notNames>>

NextNames == NormalizeName

SpecNames == InitNames /\ [][NextNames]_vars

\* ' '.join(words), as the characters SequenceMatcher compares
RECURSIVE Joined(_)
Joined(words) ==
    IF words = <<>> THEN <<>>
    ELSE IF Len(words) = 1 THEN Chars[words[1]]
    ELSE Chars[words[1]] \o <<" ">> \o Joined(Tail(words))

\* the length of the common run of a from i and b from j, inside a[..ahi], b[..bhi]
RECURSIVE RunLength(_, _, _, _, _, _)
RunLength(a, i, ahi, b, j, bhi) ==
    IF i > ahi \/ j > bhi THEN 0
    ELSE IF a[i] # b[j] THEN 0
    ELSE 1 + RunLength(a, i + 1, ahi, b, j + 1, bhi)

\* SequenceMatcher.find_longest_match(alo, ahi, blo, bhi), no junk: the
\* longest block, of those the one starting earliest in a, then in b
find_longest_match(a, alo, ahi, b, blo, bhi) ==
    LET starts == (alo..ahi) \X (blo..bhi)
        size == [s \in starts |-> RunLength(a, s[1], ahi, b, s[2], bhi)]
        k == CHOOSE n \in {size[s] : s \in starts} : \A s \in starts : size[s] <= n
        i == CHOOSE x \in alo..ahi :
                 /\ \E y \in blo..bhi : size[<<x, y>>] = k
                 /\ \A w \in alo..(x - 1) : \A y \in blo..bhi : size[<<w, y>>] # k
        j == CHOOSE y \in blo..bhi :
                 /\ size[<<i, y>>] = k
                 /\ \A z \in blo..(y - 1) : size[<<i, z>>] # k
    IN  <<i, j, k>>

\* the characters in the matching blocks of a[alo..ahi] and b[blo..bhi]:
\* the longest block, then the same to its left and to its right
RECURSIVE MatchingCount(_, _, _, _, _, _)
MatchingCount(a, alo, ahi, b, blo, bhi) ==
    IF alo > ahi \/ blo > bhi THEN 0
    ELSE LET m == find_longest_match(a, alo, ahi, b, blo, bhi)
         IN  IF m[3] = 0 THEN 0
             ELSE m[3] + MatchingCount(a, alo, m[1] - 1, b, blo, m[2] - 1)
                       + MatchingCount(a, m[1] + m[3], ahi, b, m[2] + m[3], bhi)

\* a score is the fraction <<numerator, denominator>>
Zero == <<0, 1>>
One == <<1, 1>>
AtLeast(x, y) == x[1] * y[2] >= y[1] * x[2]
Above(x, y) == x[1] * y[2] > y[1] * x[2]

\* SequenceMatcher(None, norm1, norm2).ratio(): 2.0 * matches / length
ratio(norm1, norm2) ==
    LET a == Joined(norm1)
        b == Joined(norm2)
    IN  IF Len(a) + Len(b) = 0 THEN One
        ELSE <<2 * MatchingCount(a, 1, Len(a), b, 1, Len(b)), Len(a) + Len(b)>>

\* threshold: float = 0.8, and the 0.8 of the sequence fallback
threshold == <<4, 5>>

WordSet(words) == {words[i] : i \in 1..Len(words)}

\* calculate_similarity
SimilarityBySequenceOnly(name1, name2) ==
    LET norm1 == normalize_name(name1)
        norm2 == normalize_name(name2)
    IN  IF name1 = <<>> \/ name2 = <<>> THEN Zero
        ELSE IF norm1 = norm2 THEN One
        ELSE LET sequence_similarity == ratio(norm1, norm2)
             IN  IF Above(sequence_similarity, threshold) THEN sequence_similarity ELSE Zero
calculate_similarity(name1, name2) ==
    LET norm1 == normalize_name(name1)
        norm2 == normalize_name(name2)
        words1 == WordSet(norm1)
        words2 == WordSet(norm2)
        intersection == Cardinality(words1 \cap words2)
        union == Cardinality(words1 \cup words2)
    IN  IF name1 = <<>> \/ name2 = <<>> THEN Zero
        ELSE IF norm1 = norm2 THEN One
        ELSE IF words1 # {} /\ words2 # {} /\ intersection >= 2
             THEN <<intersection, union>>
        ELSE LET sequence_similarity == ratio(norm1, norm2)
             IN  IF Above(sequence_similarity, threshold) THEN sequence_similarity ELSE Zero

\* is_name_match: similarity >= threshold
is_name_match(name1, name2) == AtLeast(calculate_similarity(name1, name2), threshold)

\* bound of the exploration: the items of the first name of a pair; the
\* second may have one more
MaxPairItems == 2

PairItems ==
    {Item("Gale", ""), Item("Klappa", ""), Item("KLAPPA", ","), Item("E", "."),
     Item("John", "")}

InitMatch ==
    /\ LimiterAtRest /\ CacheAtRest /\ ParserAtRest /\ SearchAtRest /\ ProfileAtRest /\ CallersAtRest
    /\ names \in SeqsUpTo(PairItems, MaxPairItems) \X SeqsUpTo(PairItems, MaxPairItems + 1)
    /\ matching = <<>>

\* name_matcher.is_name_match(name1, name2)
IsNameMatch ==
    /\ matching = <<>>
    /\ matching' = [op |-> "is_name_match",
                    norm1 |-> normalize_name(names[1]),
                    norm2 |-> normalize_name(names[2]),
                    result |-> is_name_match(names[1], names[2])]
    /\ UNCHANGED <<names, notNames>>

NextMatch == IsNameMatch

SpecMatch == InitMatch /\ [][NextMatch]_vars

\* ---- the records kept for the person in get_insider_transactions ----

\* a in b, for strings
IsSubstring(a, b) ==
    \E i \in 0..(Len(b) - Len(a)) : SubSeq(b, i + 1, i + Len(a)) = a

\* name.lower().replace('.', '').replace(',', '').strip().split()
SearchParts(name) == [i \in 1..Len(name) |-> LowerWord[name[i].word]]

\* the test on trans.insider_name: one normalised name inside the other,
\* or every part of the search name inside some part of the insider name
KeptForPerson(person_name, insider_name) ==
    LET search_parts == SearchParts(person_name)
        insider_parts == SearchParts(insider_name)
        normalized_search == Joined(search_parts)
        normalized_insider == Joined(insider_parts)
    IN  \/ IsSubstring(normalized_search, normalized_insider)
        \/ IsSubstring(normalized_insider, normalized_search)
        \/ \A s \in 1..Len(search_parts) : \E p \in 1..Len(insider_parts) :
              IsSubstring(Chars[search_parts[s]], Chars[insider_parts[p]])

\* the name searched for and the rptOwnerName of a record
InitRetain ==
    /\ LimiterAtRest /\ CacheAtRest /\ ParserAtRest /\ SearchAtRest /\ ProfileAtRest /\ CallersAtRest
    /\ names \in (SeqsUpTo(PairItems, MaxPairItems) \ {<<>>})
                    \X (SeqsUpTo(PairItems, MaxPairItems + 1) \ {<<>>})
    /\ matching = <<>>

\* one turn of the loop over filing_transactions, next to what
\* name_matcher.is_name_match says of the two names
FilterByPerson ==
    /\ matching = <<>>
    /\ matching' = [op |-> "filter",
                    retained |-> KeptForPerson(names[1], names[2]),
                    result |-> is_name_match(names[1], names[2])]
    /\ UNCHANGED <<names, notNames>>

NextRetain == FilterByPerson

SpecRetain == InitRetain /\ [][NextRetain]_vars

\* ---- the position of the person at a company ----

MaxTransactions == 2

\* date.toordinal(), and date.min
toordinal ==
    (<<2024, 6, 30>> :> 739067) @@ (<<2023, 7, 1>> :> 738702)
    @@ (<<2023, 6, 30>> :> 738701) @@ (<<2022, 7, 2>> :> 738338)
    @@ (<<2022, 7, 1>> :> 738337) @@ (<<1, 1, 1>> :> 1)
current_date == <<2024, 6, 30>>

\* the transactions of a result, as InsiderTransaction.to_dict gives them:
\* transaction_date is an ISO date (or is not there), and the key
\* insider_title is always there, with None for a title that is not set
Dicts ==
    [ transaction_date : {"2024-06-30", "2023-07-01", "2023-06-30",
                          "2022-07-02", "2022-07-01", NoneValue},
      insider_title : {NoneValue, "CEO", "CFO"} ]

\* determine_position_status: max() of no date raises ValueError, a date
\* that parse_date gives as None raises TypeError, and both are caught
StatusWithinStrictYear(transactions, today) ==
    LET dates == {parse_date(transactions[i].transaction_date) :
                    i \in {k \in 1..Len(transactions) :
                             transactions[k].transaction_date # NoneValue}}
        latest_transaction ==
            CHOOSE d \in dates : \A e \in dates : toordinal[e] <= toordinal[d]
        days_since_last == toordinal[today] - toordinal[latest_transaction]
    IN  IF dates = {} \/ NoDate \in dates THEN "unknown"
        ELSE IF days_since_last < 365 THEN "current"
        ELSE IF days_since_last >= 730 THEN "former"
        ELSE "unknown"
determine_position_status(transactions, today) ==
    IF transactions = <<>> THEN "unknown"
    ELSE
    LET dates == {parse_date(transactions[i].transaction_date) :
                    i \in {k \in 1..Len(transactions) :
                             transactions[k].transaction_date # NoneValue}}
        latest_transaction ==
            CHOOSE d \in dates : \A e \in dates : toordinal[e] <= toordinal[d]
        days_since_last == toordinal[today] - toordinal[latest_transaction]
    IN  IF dates = {} \/ NoDate \in dates THEN "unknown"
        ELSE IF days_since_last <= 365 THEN "current"
        ELSE IF days_since_last >= 730 THEN "former"
        ELSE "unknown"

\* the key of extract_current_position:
\* parse_date(t.get('transaction_date', '')) or date.min
DateKey(t) ==
    LET parsed_date == IF t.transaction_date = NoneValue THEN NoDate
                       ELSE parse_date(t.transaction_date)
    IN  toordinal[IF parsed_date = NoDate THEN <<1, 1, 1>> ELSE parsed_date]

\* extract_current_position: max() gives the first transaction of the
\* greatest key, and .get('insider_title', 'Director') the value under the
\* key, which is there
extract_current_position(transactions) ==
    IF transactions = <<>> THEN NoneValue
    ELSE LET latest == CHOOSE i \in 1..Len(transactions) :
                 /\ \A j \in 1..Len(transactions) :
                       DateKey(transactions[j]) <= DateKey(transactions[i])
                 /\ \A j \in 1..(i - 1) :
                       DateKey(transactions[j]) < DateKey(transactions[i])
         IN  transactions[latest].insider_title

InitStatus ==
    /\ LimiterAtRest /\ CacheAtRest /\ ParserAtRest /\ SearchAtRest /\ NamesAtRest /\ CallersAtRest
    /\ profile \in {[transactions |-> transactions] :
                      transactions \in SeqsUpTo(Dicts, MaxTransactions)}
    /\ reply = <<>>

\* position_status and current_position of one company, as search_company
\* computes them from result.get('transactions', [])
PositionAtCompany ==
    /\ reply = <<>>
    /\ reply' = [position_status |->
                      determine_position_status(profile.transactions, current_date),
                  current_position |->
                      extract_current_position(profile.transactions)]
    /\ UNCHANGED <<profile, notProfile>>

NextStatus == PositionAtCompany

SpecStatus == InitStatus /\ [][NextStatus]_vars

\* ---- the result of get_all_insider_companies ----

MaxSummaries == 2
MaxGenerated == 6
FirstVariations == 5

\* CompanyInsiderSummary: what the result is built from
Summaries ==
    [ position_status : {"current", "former", "unknown"},
      transaction_count : 1..2,
      last_transaction_date : {NoDate, <<2024, 6, 30>>, <<2022, 7, 1>>} ]

\* the summaries found, each with the ticker of its company
Ticketed(summaries) ==
    [i \in 1..Len(summaries) |->
        [ticker |-> i,
         position_status |-> summaries[i].position_status,
         transaction_count |-> summaries[i].transaction_count,
         last_transaction_date |-> summaries[i].last_transaction_date]]

\* if not include_former: keep the status "current" and "unknown"
KeepingFormer(companies_with_activity, include_former) == companies_with_activity
WithoutFormer(companies_with_activity, include_former) ==
    LET Kept(c) == c.position_status \in {"current", "unknown"}
    IN  IF include_former THEN companies_with_activity
        ELSE SelectSeq(companies_with_activity, Kept)

\* sort(key=lambda x: x.last_transaction_date or date.min, reverse=True),
\* a stable sort
SortedByLastDate(companies_with_activity) ==
    LET n == Len(companies_with_activity)
        Key(i) == LET d == companies_with_activity[i].last_transaction_date
                  IN  toordinal[IF d = NoDate THEN <<1, 1, 1>> ELSE d]
        Before(i) == {j \in 1..n : Key(j) > Key(i) \/ (Key(j) = Key(i) /\ j < i)}
    IN  [at \in 1..n |->
            companies_with_activity[CHOOSE i \in 1..n : Cardinality(Before(i)) = at - 1]]

\* sum(c.transaction_count for c in companies_with_activity)
RECURSIVE total_transactions(_)
total_transactions(companies_with_activity) ==
    IF companies_with_activity = <<>> THEN 0
    ELSE Head(companies_with_activity).transaction_count
            + total_transactions(Tail(companies_with_activity))

\* the summary statistics of the profile
SummaryCountingFound(companies_with_activity) ==
    [ total_companies |-> Len(companies_with_activity),
      active_positions |-> Len(companies_with_activity),
      former_positions |-> 0,
      total_transactions |-> total_transactions(companies_with_activity) ]
SummaryOf(companies_with_activity) ==
    LET Current(c) == c.position_status = "current"
        Former(c) == c.position_status = "former"
    IN  [ total_companies |-> Len(companies_with_activity),
          active_positions |-> Len(SelectSeq(companies_with_activity, Current)),
          former_positions |-> Len(SelectSeq(companies_with_activity, Former)),
          total_transactions |-> total_transactions(companies_with_activity) ]

\* the dictionary get_all_insider_companies returns after its search, with
\* the message and generate_name_variations(person_name)[:5] if no company
\* is left
ResultOf(found, include_former, use_fulltext_search, name_variations) ==
    LET companies_with_activity == SortedByLastDate(WithoutFormer(found, include_former))
        summary == SummaryOf(companies_with_activity)
        dictionary ==
            [ person_name |-> "name",
              search_method |-> IF use_fulltext_search THEN "fulltext"
                                ELSE "brute-force",
              summary |-> summary,
              companies |-> [i \in 1..Len(companies_with_activity) |->
                  [ticker |-> companies_with_activity[i].ticker,
                   position_status |-> companies_with_activity[i].position_status,
                   total_transactions |-> companies_with_activity[i].transaction_count]] ]
    IN  IF summary.total_companies = 0
        THEN dictionary @@
             [ message |-> "No insider activity found",
               name_variations_searched |->
                   Take([i \in 1..name_variations |-> i], FirstVariations) ]
        ELSE dictionary

\* the dictionary returned when get_all_public_companies gave no company
ErrorResult ==
    [ person_name |-> "name",
      error |-> "Could not retrieve public company listings",
      companies |-> <<>>,
      total_companies |-> 0 ]

\* a call of get_all_insider_companies by the tool or by
\* get_current_board_positions (which passes include_former=False), the
\* strategy that ran, whether the company list came, and what was found
InitProfile ==
    /\ LimiterAtRest /\ CacheAtRest /\ ParserAtRest /\ SearchAtRest /\ NamesAtRest /\ CallersAtRest
    /\ profile \in
         { p \in [ caller : {"get_all_insider_companies_tool", "get_current_board_positions"},
                   include_former : BOOLEAN,
                   use_fulltext_search : BOOLEAN,
                   company_list : BOOLEAN,
                   name_variations : 1..MaxGenerated,
                   found : {Ticketed(summaries) :
                               summaries \in SeqsUpTo(Summaries, MaxSummaries)} ] :
             /\ p.caller = "get_current_board_positions" => ~p.include_former
             /\ p.use_fulltext_search => p.company_list
             /\ ~p.company_list => p.found = <<>> }
    /\ reply = <<>>

\* get_all_insider_companies returns
ReturnResult ==
    /\ reply = <<>>
    /\ reply' = [ returned |->
                    IF ~profile.use_fulltext_search /\ ~profile.company_list
                    THEN ErrorResult
                    ELSE ResultOf(profile.found, profile.include_former,
                                  profile.use_fulltext_search, profile.name_variations),
                  board |-> <<>> ]
    /\ UNCHANGED <<profile, notProfile>>

\* get_current_board_positions keeps the companies of status "current"
get_current_board_positions ==
    /\ reply # <<>>
    /\ reply.board = <<>>
    /\ profile.caller = "get_current_board_positions"
    /\ LET Current(company) == company.position_status = "current"
           current_positions == SelectSeq(reply.returned.companies, Current)
       IN  reply' = [reply EXCEPT !.board =
              <<[current_positions_count |-> Len(current_positions),
                 current_positions |-> current_positions]>>]
    /\ UNCHANGED <<profile, notProfile>>

NextProfile == ReturnResult \/ get_current_board_positions

SpecProfile == InitProfile /\ [][NextProfile]_vars

-----------------------------------------------------------------------------
(* The company list behind the cache: get_all_public_companies is          *)
(* decorated with cached('company_list'), get_all_insider_companies with   *)
(* cached('cross_company') over rate_limited, and the brute-force branch   *)
(* of the second calls the first.  sent counts requests.get of             *)
(* company_tickers.json.                                                   *)

\* bound of the exploration: the searches that run
MaxSearches == 2

PersonNames == {"Gale Klappa", "Al Smith"}
UserAgents == {"agent", "other agent"}

\* get_all_insider_companies(person_name=..., user_agent=...,
\* use_fulltext_search=False), and the call of get_all_public_companies in it
BruteForceCall(person_name, user_agent) ==
    [func |-> "get_all_insider_companies", args |-> <<>>,
     kwargs |-> << <<"person_name", person_name>>, <<"user_agent", user_agent>>,
                   <<"use_fulltext_search", "False">> >>]
DirectoryCall(user_agent) ==
    [func |-> "get_all_public_companies", args |-> <<user_agent>>, kwargs |-> <<>>]

\* the key the cached wrapper derives for a call
CallKey(call) == _get_cache_key(WrapperKeyParts(call))

\* the mutation: an empty list is not taken for an answer
DirectoryAnswersIfNotEmpty(c, cache_key, t) ==
    GetHits(c, cache_key, t) /\ c[cache_key].value # <<>>

\* cached_value is not None, get_all_public_companies never returning None
DirectoryAnswers(c, cache_key, t) == GetHits(c, cache_key, t)

\* what get_all_public_companies returns: the companies of the response, or
\* the empty list when the request or its decoding raised
Directory(fetch) ==
    IF fetch = "raises" THEN <<>> ELSE <<[ticker |-> "WEC", cik_str |-> "783325"]>>

ErrorResultFor(person_name) == [ErrorResult EXCEPT !.person_name = person_name]

\* what the search over a company list that came returns
SearchedResult(person_name, found) ==
    [ResultOf(found, TRUE, FALSE, 1) EXCEPT !.person_name = person_name]

Founds ==
    { <<>>,
      Ticketed(<<[position_status |-> "current", transaction_count |-> 1,
                  last_transaction_date |-> <<2024, 6, 30>>]>>) }

\* the entry of the company list, as a call finds it
DirectoryEntry(c, user_agent, t) ==
    LET cache_key == CallKey(DirectoryCall(user_agent))
    IN  IF cache_key \in DOMAIN c
        THEN [found |-> TRUE, fresh |-> Fresh(c[cache_key], t),
              empty |-> c[cache_key].value = <<>>,
              created |-> c[cache_key].created,
              expires_at |-> c[cache_key].expires_at]
        ELSE [found |-> FALSE, fresh |-> FALSE, empty |-> FALSE, created |-> 0,
              expires_at |-> 0]

\* a call of get_all_insider_companies that takes the brute-force branch
\* when it runs; `fetch` is what requests.get does if it is called, `found`
\* what the search over the companies finds
brute_force_search(person_name, user_agent, fetch, found) ==
    LET call == BruteForceCall(person_name, user_agent)
        cache_key == CallKey(call)
        looked == GetLeaves(cache, cache_key, wall)
        directory_key == CallKey(DirectoryCall(user_agent))
        listed == GetLeaves(looked, directory_key, wall)
        about == [op |-> "search", person_name |-> person_name,
                  user_agent |-> user_agent, at |-> wall, sent |-> sent,
                  directory |-> DirectoryEntry(cache, user_agent, wall)]
    IN  /\ Len(history) < MaxSearches
        /\ IF GetHits(cache, cache_key, wall)
           THEN \* answered by the cached wrapper
                /\ reply' = about @@ [ran |-> FALSE, returned |-> cache[cache_key].value]
                /\ cache' = looked
                /\ UNCHANGED <<sent, limiterVars>>
           ELSE /\ Admission
                /\ IF DirectoryAnswers(looked, directory_key, wall)
                   THEN LET company_list == looked[directory_key].value
                            result == IF company_list = <<>>
                                      THEN ErrorResultFor(person_name)
                                      ELSE SearchedResult(person_name, found)
                        IN  /\ reply' = about @@ [ran |-> TRUE, returned |-> result]
                            /\ cache' = SetLeaves(listed, cache_key, result,
                                                  "cross_company", wall)
                            /\ UNCHANGED sent
                   ELSE LET company_list == Directory(fetch)
                            result == IF company_list = <<>>
                                      THEN ErrorResultFor(person_name)
                                      ELSE SearchedResult(person_name, found)
                        IN  /\ sent' = sent + 1
                            /\ reply' = about @@ [ran |-> TRUE, returned |-> result]
                            /\ cache' = SetLeaves(
                                   SetLeaves(listed, directory_key, company_list,
                                             "company_list", wall),
                                   cache_key, result, "cross_company", wall)
        /\ UNCHANGED <<wall, lastGet, stored, lastCall, spc, search, parserVars,
                       nameVars, profile, callerVars>>

\* an hour passes
DirectoryWallTick ==
    /\ wall < MaxWall
    /\ wall' = wall + 1
    /\ UNCHANGED <<cache, lastGet, stored, lastCall, limiterVars, parserVars,
                   searchVars, nameVars, profileVars, callerVars>>

InitDirectory == InitLimiter /\ CacheAtRest /\ ParserAtRest /\ SearchAtRest /\ NamesAtRest /\ ProfileAtRest /\ CallersAtRest

NextDirectory ==
    \/ DirectoryWallTick
    \/ \E person_name \in PersonNames, user_agent \in UserAgents,
          fetch \in {"raises", "responds"}, found \in Founds :
          brute_force_search(person_name, user_agent, fetch, found)

SpecDirectory == InitDirectory /\ [][NextDirectory]_vars

-----------------------------------------------------------------------------
(* C1: for any interleaving of concurrent callers of wait_if_needed on the *)
(* shared instance, the number of calls that return within any interval of *)
(* length time_window never exceeds max_requests.                          *)
C1_PoolWithinBudget ==
    \A t \in 0..clock :
        Cardinality({i \in 1..Len(history) :
                        /\ history[i].returned >= t
                        /\ history[i].returned < t + time_window}) <= max_requests

(* C2: for a single caller, in every interval of length time_window at     *)
(* most max_requests calls return, a call being admitted at the moment it  *)
(* returns.  history is in order of return, so more than max_requests      *)
(* returns inside one interval are two returns, max_requests places apart, *)
(* less than time_window apart.                                            *)
C2_SingleWithinBudget ==
    \A i \in 1..Len(history) :
        (i + max_requests <= Len(history)) =>
            history[i + max_requests].returned - history[i].returned >= time_window

(* C3: a call entered while max_requests recorded admissions lie inside    *)
(* the window does not return before the oldest of them is time_window     *)
(* old; so max_requests + 1 successive calls take at least time_window     *)
(* from the entry of the first to the return of the last.                  *)
C3_SaturatedWaitsForOldest ==
    /\ \A i \in 1..Len(history) :
          history[i].saturated =>
              history[i].returned - history[i].oldest >= time_window
    /\ \A i \in 1..Len(history) :
          (i + max_requests <= Len(history)) =>
              history[i + max_requests].returned - history[i].entered >= time_window

C3_BurstHasWaited ==
    /\ Len(history) > max_requests
    /\ history[Len(history)].saturated
    /\ history[Len(history)].entered = history[1].entered

-----------------------------------------------------------------------------
(* C4: every outbound request of a search is preceded by its own          *)
(* admission from the shared rate limiter: at every point the number of    *)
(* requests sent is at most the number of wait_if_needed calls that have   *)
(* returned.                                                               *)
C4_RequestsWithinAdmissions == sent <= Len(history)

(* C5: Cache.get never returns the value of an entry once the current time *)
(* is at or past the entry's creation time plus its TTL, and a lookup that *)
(* finds such an expired entry removes it from the cache.                  *)
C5_ExpiredNeverReturned ==
    (lastGet.op = "get" /\ lastGet.found /\ lastGet.at >= lastGet.created + lastGet.ttl)
        => (~lastGet.hit /\ lastGet.removed)

C5_ExpiredLookedUp ==
    /\ lastGet.op = "get"
    /\ lastGet.found
    /\ lastGet.at >= lastGet.created + lastGet.ttl
    /\ lastGet.removed

(* C6: two calls of a cached operation with identical arguments within the *)
(* TTL invoke the operation exactly once, the second call returning the    *)
(* stored value, whatever value that is; a call made after the TTL has     *)
(* elapsed invokes it again.                                               *)
C6_InvokedOncePerTtl ==
    (lastCall.op = "call" /\ lastCall.outcome = "returned" /\ lastCall.prev # NoStore)
        => IF lastCall.at < lastCall.prev.at + lastCall.ttl
           THEN ~lastCall.invoked /\ lastCall.result = lastCall.prev.value
           ELSE lastCall.invoked

(* C7: the cache key does not depend on the order in which the keyword     *)
(* arguments are supplied: a call whose arguments were stored under another *)
(* keyword order derives the same key, and hits while the stored value is  *)
(* live.                                                                   *)
C7_KeywordOrderSameKey ==
    (lastCall.op = "call" /\ lastCall.prev # NoStore
        /\ lastCall.prev.kwargs # lastCall.call.kwargs)
        => /\ lastCall.key = lastCall.prev.key
           /\ (lastCall.at < lastCall.prev.at + lastCall.ttl
                  /\ lastCall.prev.value # NoneValue)
               => (~lastCall.invoked /\ lastCall.result = lastCall.prev.value)

C7_OtherOrderHit ==
    /\ lastCall.op = "call"
    /\ lastCall.prev # NoStore
    /\ lastCall.prev.kwargs # lastCall.call.kwargs
    /\ ~lastCall.invoked
    /\ lastCall.result = lastCall.prev.value

(* C8: a call of a cached-wrapped method, whose first positional argument  *)
(* is the receiver, returns the method's result and does not fail inside   *)
(* the cache layer.                                                        *)
C8_MethodCallReturns ==
    (lastCall.op = "call" /\ lastCall.call.args[1] = Receiver)
        => lastCall.outcome = "returned"

(* C9: for every record the extractor emits, on the non-derivative, the    *)
(* derivative or the fallback path, with share quantity q and recorded     *)
(* price p: total_value is q * p when p is not null, and total_value is    *)
(* null exactly when p is null.                                            *)
C9_TotalIsQuantityTimesPrice ==
    (parsed # <<>> /\ parsed.kind = "list") =>
        \A i \in 1..Len(parsed.records) :
            LET r == parsed.records[i]
            IN  /\ (r.price_per_share # NoNumber) =>
                       r.total_value = <<r.shares[1] * r.price_per_share[1]>>
                /\ (r.total_value = NoNumber) <=> (r.price_per_share = NoNumber)

(* C10: parse_form4_xml returns a list and never raises, for any document  *)
(* text; when the structural parse fails the fallback parser runs on the   *)
(* same content; when the entity name or the filer name cannot be          *)
(* established in the parser that ran, the list is empty.                  *)
C10_ReturnsListNeverRaises ==
    (parsed # <<>>) =>
        /\ parsed.kind = "list"
        /\ (doc.text # "wellformed") => parsed.fallback
        /\ (doc.issuerName = NoneValue \/ doc.ownerTag = NoneValue
              \/ (parsed.fallback /\ doc.ownerTag # "rptOwnerName"))
               => parsed.records = <<>>

(* C11: within one document a failure in one transaction or holding        *)
(* element is skipped without aborting the extraction: every other element *)
(* that parses still yields its record (holdings when no transaction of    *)
(* the table gave one), no other record is emitted, and the records keep   *)
(* the order of their elements in the document.                            *)
C11_FailureSkippedOrderKept ==
    (parsed # <<>> /\ parsed.kind = "list" /\ _extract_filing_info(doc) # NoInfo
       /\ (parsed.fallback => doc.soup = "parsed" /\ doc.ownerTag = "rptOwnerName")) =>
        LET info == _extract_filing_info(doc)[1]
            n == Len(doc.elems)
            Is(i, table, tag) == doc.elems[i].table = table /\ doc.elems[i].tag = tag
            transactions == {i \in 1..n : /\ Is(i, "nonDerivative", "transaction")
                /\ _parse_non_derivative_transaction(doc.elems[i], info) # Skipped}
            holdings == {i \in 1..n : /\ Is(i, "nonDerivative", "holding")
                /\ _parse_non_derivative_holding(doc.elems[i], info) # Skipped}
            derivatives == {i \in 1..n : /\ Is(i, "derivative", "transaction")
                /\ _parse_derivative_transaction(doc.elems[i], info) # Skipped}
            soup == {i \in 1..n : /\ Is(i, "nonDerivative", "transaction")
                /\ FallbackTransaction(doc.elems[i]) # Skipped}
            expected == IF parsed.fallback THEN soup
                        ELSE (IF transactions = {} THEN holdings ELSE transactions)
                                 \cup derivatives
        IN  /\ {parsed.records[k].at : k \in 1..Len(parsed.records)} = expected
            /\ \A k \in 1..Len(parsed.records) - 1 :
                   parsed.records[k].at < parsed.records[k + 1].at

\* C11 witness: the first element failed and the one after it gave its record
C11_LaterElementKept ==
    /\ parsed # <<>> /\ parsed.kind = "list"
    /\ Len(doc.elems) = 2
    /\ doc.elems[1].tag = "transaction" /\ doc.elems[1].shares = "abc"
    /\ Len(parsed.records) = 1 /\ parsed.records[1].at = 2

(* C12: the transaction kind of every emitted record is the image of its   *)
(* transaction code under the fixed table: P Purchase, S Sale, G Gift,     *)
(* C Conversion, M Exercise, F Sale, D Sale, A Purchase, X Exercise, and   *)
(* Other for every other code.                                             *)
C12_KindIsTableImage ==
    (parsed # <<>> /\ parsed.kind = "list") =>
        \A k \in 1..Len(parsed.records) :
            LET r == parsed.records[k]
                code == doc.elems[r.at].code
                kind == CASE code \in {"P", "A"} -> "PURCHASE"
                          [] code \in {"S", "F", "D"} -> "SALE"
                          [] code = "G" -> "GIFT"
                          [] code = "C" -> "CONVERSION"
                          [] code \in {"M", "X"} -> "EXERCISE"
                          [] OTHER -> "OTHER"
            IN  code # NoneValue => r.transaction_type = kind

\* C12 witness: a record of code F, a sale
C12_PaymentCodeIsSale ==
    /\ parsed # <<>> /\ parsed.kind = "list" /\ Len(parsed.records) = 1
    /\ doc.elems[1].code = "F" /\ parsed.records[1].transaction_type = "SALE"

(* C13: in the non-derivative table holdings are parsed only when no       *)
(* non-derivative transaction gave a record; a holding record has share    *)
(* quantity 0, null price, null total value, kind Other, the period of     *)
(* report as its date and a non-null balance equal to the reported         *)
(* holding; with a transaction record there is no holding record.          *)
C13_HoldingsOnlyWithoutTransactions ==
    (parsed # <<>> /\ parsed.kind = "list") =>
        LET recs == parsed.records
            held == {k \in 1..Len(recs) : recs[k].tag = "holding"}
            traded == {k \in 1..Len(recs) :
                          recs[k].tag = "transaction" /\ recs[k].path # "derivative"}
        IN  /\ held # {} => traded = {}
            /\ \A k \in held :
                   /\ recs[k].shares = <<0>>
                   /\ recs[k].price_per_share = NoNumber
                   /\ recs[k].total_value = NoNumber
                   /\ recs[k].transaction_type = "OTHER"
                   /\ recs[k].transaction_date = parse_date(doc.period)
                   /\ recs[k].shares_owned_after # NoNumber
                   /\ recs[k].shares_owned_after = clean_number(doc.elems[recs[k].at].after)
            /\ (traded = {} /\ ~parsed.fallback /\ _extract_filing_info(doc) # NoInfo) =>
                   \A i \in 1..Len(doc.elems) :
                       (doc.elems[i].tag = "holding"
                          /\ doc.elems[i].table = "nonDerivative"
                          /\ doc.elems[i].title # NoneValue
                          /\ clean_number(doc.elems[i].after) # NoNumber)
                       => \E k \in held : recs[k].at = i

\* C13 witness: a transaction element gave no record and a holding was parsed
C13_HoldingReported ==
    /\ parsed # <<>> /\ parsed.kind = "list"
    /\ Len(doc.elems) = 2 /\ doc.elems[1].tag = "transaction"
    /\ Len(parsed.records) = 1 /\ parsed.records[1].tag = "holding"

(* C14: normalize_name is idempotent: for every name x, of honorifics,     *)
(* suffixes, initials, nicknames and ordinary tokens in any positions,     *)
(* normalize_name(normalize_name(x)) = normalize_name(x).                  *)
C14_NormalizeIdempotent ==
    (matching # <<>> /\ matching.op = "normalize_name") =>
        matching.again = matching.normalized

(* C15: a name with a comma is read as "Last, First Middle" and is         *)
(* normalized as "First Middle Last" is, so that "KLAPPA, GALE E" gives    *)
(* "gale klappa".                                                          *)
C15_CommaNameReordered ==
    (matching # <<>> /\ matching.op = "normalize_name" /\ HasComma(names[1])) =>
        matching.normalized = normalize_name(Unpunctuated(LastFirst(names[1])))

(* C16: is_name_match with the default threshold is true for every pair of *)
(* names whose normalized forms have the same set of at least two tokens,  *)
(* whatever the order, case, punctuation and initials, and false for every *)
(* pair whose normalized forms share no token and have a sequence ratio    *)
(* not above 0.8.                                                          *)
C16_SameTokensMatch ==
    (matching # <<>> /\ matching.op = "is_name_match") =>
        LET words1 == WordSet(matching.norm1)
            words2 == WordSet(matching.norm2)
        IN  /\ (words1 = words2 /\ Cardinality(words1) >= 2) => matching.result
            /\ (words1 \cap words2 = {}
                  /\ ~Above(ratio(matching.norm1, matching.norm2), threshold))
               => ~matching.result

\* C16 witness: "Gale Klappa" against "KLAPPA, Gale E." is a match
C16_GaleKlappaMatched ==
    /\ matching # <<>> /\ matching.op = "is_name_match"
    /\ names[1] = <<Item("Gale", ""), Item("Klappa", "")>>
    /\ names[2] = <<Item("KLAPPA", ","), Item("Gale", ""), Item("E", ".")>>
    /\ matching.norm1 # matching.norm2
    /\ matching.result

(* C17: search_form4_by_person queries the index with at most the first    *)
(* three name variations, in their order and the verbatim name first, and  *)
(* merges the hits so that each accession number is in the merged result   *)
(* at most once, the hit kept being the first one encountered.             *)
C17_HitsMergedOncePerAccession ==
    (spc \in {"query", "returned"}) =>
        LET seen == search.encountered
            merged == IF spc = "returned" THEN search.results ELSE search.all_results
            First(a) == CHOOSE i \in 1..Len(seen) :
                /\ seen[i].accession_number = a
                /\ \A j \in 1..(i - 1) : seen[j].accession_number # a
        IN  /\ search.asked <= TopVariations
            /\ search.asked <= search.name_variations
            /\ \A i \in 1..Len(seen) : seen[i].reporting_owner \in 1..search.asked
            /\ \A i, j \in 1..Len(seen) :
                   i < j => seen[i].reporting_owner <= seen[j].reporting_owner
            /\ \A i, j \in 1..Len(merged) :
                   merged[i].accession_number = merged[j].accession_number => i = j
            /\ \A i \in 1..Len(merged) :
                   /\ merged[i].accession_number # NoneValue
                   /\ merged[i] = seen[First(merged[i].accession_number)]
            /\ Accessions(merged) = Accessions(seen) \ {NoneValue}

\* C17 witness: two variations gave a hit of the same accession number and
\* the merged result returned holds the first of them
C17_SecondHitDropped ==
    /\ spc = "returned"
    /\ Len(search.encountered) = 2
    /\ search.encountered[1].accession_number = search.encountered[2].accession_number
    /\ search.encountered[1].reporting_owner # search.encountered[2].reporting_owner
    /\ search.results = <<search.encountered[1]>>

\* C18: within one retrieval for a company, the URLs processed are the
\* distinct URLs of the listing in the order of their first occurrence, at
\* most the first MaxFilings of them, and no URL is fetched twice or passed
\* to the extractor twice
C18_EachListedUrlProcessedOnce ==
    LET listed == search.listed
        processed == search.processed
        First(u) == CHOOSE i \in 1..Len(listed) :
                        /\ listed[i] = u
                        /\ \A j \in 1..(i - 1) : listed[j] # u
        Once(urls) == \A i, j \in 1..Len(urls) : urls[i] = urls[j] => i = j
    IN  spc \in {"filing", "done"} =>
          /\ Once(processed) /\ Once(search.fetched) /\ Once(search.extracted)
          /\ UrlsOf(processed) \subseteq UrlsOf(listed)
          /\ \A i, j \in 1..Len(processed) :
                i < j => First(processed[i]) < First(processed[j])
          /\ \A u \in UrlsOf(listed), v \in UrlsOf(processed) :
                First(u) < First(v) => u \in UrlsOf(processed)
          /\ Len(processed) <= MaxFilings
          /\ UrlsOf(search.extracted) \subseteq UrlsOf(search.fetched)
          /\ UrlsOf(search.fetched) \subseteq
                UrlsOf(processed) \cup {xml_url(u) : u \in UrlsOf(processed)}
          /\ spc = "done" =>
                Len(processed) = Min(Cardinality(UrlsOf(listed)), MaxFilings)

\* a listing with a repeated URL and more than MaxFilings distinct ones has
\* been processed and a document of it was passed to the extractor
C18_DuplicateListed ==
    /\ spc = "done"
    /\ Len(search.listed) > Cardinality(UrlsOf(search.listed))
    /\ Cardinality(UrlsOf(search.listed)) > MaxFilings
    /\ search.extracted # <<>>

\* C19: when every index query of a request fails, the search goes on to
\* the directory and its result reports the method "brute-force"
C19_TotalIndexFailureFallsBack ==
    ( /\ spc = "done"
      /\ search.caller = "get_all_insider_companies"
      /\ search.asked > 0
      /\ search.failed = search.asked )
    => search.search_method = "brute-force"

\* C20: the result of the brute-force strategy holds exactly one summary
\* for each entry of the company list that has a ticker and whose retrieval
\* gives at least min_transactions transactions, and no other
C20_ExactlyTheQualifyingEntries ==
    LET company_list == search.company_list
        Qualifying == {i \in 1..Len(company_list) :
                          /\ company_list[i].ticker # ""
                          /\ company_list[i].retrieval = "enough"}
    IN  (spc = "done" /\ search.result = "companies") =>
          /\ {search.companies[k] : k \in 1..Len(search.companies)} = Qualifying
          /\ Len(search.companies) = Cardinality(Qualifying)
          /\ search.total_companies = Cardinality(Qualifying)

\* C21: the status is "current" when the latest transaction date is at most
\* 365 days before the current date, "former" when it is 730 days or more,
\* "unknown" in between, and "unknown" when no transaction has a date
C21_StatusByDaysSinceLatest ==
    LET DaysSince == ("2024-06-30" :> 0) @@ ("2023-07-01" :> 365)
                     @@ ("2023-06-30" :> 366) @@ ("2022-07-02" :> 729)
                     @@ ("2022-07-01" :> 730)
        transactions == profile.transactions
        Dated == {i \in 1..Len(transactions) :
                     transactions[i].transaction_date # NoneValue}
        d == DaysSince[transactions[CHOOSE i \in Dated : \A j \in Dated :
                 DaysSince[transactions[i].transaction_date]
                     <= DaysSince[transactions[j].transaction_date]].transaction_date]
    IN  reply # <<>> =>
          reply.position_status =
              IF Dated = {} THEN "unknown"
              ELSE IF d <= 365 THEN "current"
              ELSE IF d >= 730 THEN "former"
              ELSE "unknown"

\* a company whose latest transaction is exactly 365 days old, after an
\* older one, was classified
C21_LatestAYearAgo ==
    /\ reply # <<>>
    /\ Len(profile.transactions) = 2
    /\ profile.transactions[1].transaction_date = "2022-07-01"
    /\ profile.transactions[2].transaction_date = "2023-07-01"
    /\ reply.position_status = "current"

\* C22: the current position is the title of a transaction of the latest
\* date, and "Director" when that title is not set
C22_PositionOfLatestOrDirector ==
    LET transactions == profile.transactions
        Latest == {i \in 1..Len(transactions) : \A j \in 1..Len(transactions) :
                      DateKey(transactions[j]) <= DateKey(transactions[i])}
    IN  (reply # <<>> /\ transactions # <<>>) =>
          \E i \in Latest :
              reply.current_position =
                  IF transactions[i].insider_title = NoneValue THEN "Director"
                  ELSE transactions[i].insider_title

\* C23: with include_former false the companies returned are exactly the
\* companies found whose status is "current" or "unknown", none is
\* "former", former_positions is 0, and get_current_board_positions gives
\* exactly those of status "current"
C23_FormerLeftOut ==
    LET found == profile.found
        returned == reply.returned.companies
        Tickers(companies, statuses) ==
            {companies[i].ticker : i \in {k \in 1..Len(companies) :
                                           companies[k].position_status \in statuses}}
        All == {"current", "former", "unknown"}
    IN  (reply # <<>> /\ ~profile.include_former) =>
          /\ Tickers(returned, All) = Tickers(found, {"current", "unknown"})
          /\ Len(returned) = Cardinality(Tickers(found, {"current", "unknown"}))
          /\ Tickers(returned, {"former"}) = {}
          /\ \A i \in 1..Len(returned) : \E j \in 1..Len(found) :
                /\ found[j].ticker = returned[i].ticker
                /\ found[j].position_status = returned[i].position_status
          /\ "summary" \in DOMAIN reply.returned =>
                reply.returned.summary.former_positions = 0
          /\ reply.board # <<>> =>
                /\ Tickers(reply.board[1].current_positions, All)
                      = Tickers(found, {"current"})
                /\ Len(reply.board[1].current_positions)
                      = Cardinality(Tickers(found, {"current"}))
                /\ reply.board[1].current_positions_count
                      = Cardinality(Tickers(found, {"current"}))

\* get_current_board_positions has answered for a person found at a former
\* and at a current company
C23_FormerAndCurrentFound ==
    /\ reply # <<>>
    /\ reply.board # <<>>
    /\ Len(profile.found) = 2
    /\ profile.found[1].position_status = "former"
    /\ profile.found[2].position_status = "current"
    /\ reply.board[1].current_positions_count = 1

\* C24: in a result with a summary the counts are those of the companies
\* returned, and the message and at most five name variations are there
\* exactly when no company is returned
C24_SummaryAgreesWithCompanies ==
    LET returned == reply.returned
        companies == returned.companies
        With(status) == {i \in 1..Len(companies) : companies[i].position_status = status}
        Counted(i) == companies[i].total_transactions
        Sum == IF Len(companies) = 0 THEN 0
               ELSE IF Len(companies) = 1 THEN Counted(1)
               ELSE IF Len(companies) = 2 THEN Counted(1) + Counted(2)
               ELSE IF Len(companies) = 3 THEN Counted(1) + Counted(2) + Counted(3)
               ELSE -1
    IN  (reply # <<>> /\ "summary" \in DOMAIN returned) =>
          /\ returned.summary.total_companies = Len(companies)
          /\ returned.summary.active_positions = Cardinality(With("current"))
          /\ returned.summary.former_positions = Cardinality(With("former"))
          /\ returned.summary.total_transactions = Sum
          /\ "message" \in DOMAIN returned <=> returned.summary.total_companies = 0
          /\ "name_variations_searched" \in DOMAIN returned
                <=> returned.summary.total_companies = 0
          /\ "name_variations_searched" \in DOMAIN returned =>
                Len(returned.name_variations_searched) <= 5

\* a result with the message and five of six name variations, and a
\* result with a former and a current company, have been returned
C24_EmptyAfterFilter ==
    /\ reply # <<>>
    /\ "message" \in DOMAIN reply.returned
    /\ profile.name_variations = 6
    /\ Len(reply.returned.name_variations_searched) = 5
    /\ Len(profile.found) = 2

\* C25: every call returns a dictionary with the keys summary, companies
\* and search_method
C25_ResultHasSummary ==
    reply # <<>> =>
        {"summary", "companies", "search_method"} \subseteq DOMAIN reply.returned

\* C27: every derivative transaction that can be read gives a record with
\* the suffixed title and the underlying share count as the balance, and
\* when the derivative table gives no transaction record its holdings give
\* holding records
C27_DerivativeTableAsNonDerivative ==
    (parsed # <<>> /\ parsed.kind = "list" /\ ~parsed.fallback
       /\ _extract_filing_info(doc) # NoInfo) =>
        LET recs == parsed.records
            n == Len(doc.elems)
            Of(i) == {k \in 1..Len(recs) : recs[k].at = i}
            Underlying(e) == IF e.underlying \in DOMAIN NumberOf
                             THEN NumberOf[e.underlying] ELSE 0
        IN  /\ \A i \in 1..n :
                  LET e == doc.elems[i]
                  IN  (/\ e.table = "derivative" /\ e.tag = "transaction"
                       /\ e.title # NoneValue /\ e.amounts
                       /\ e.shares \in DOMAIN NumberOf) =>
                        \E k \in Of(i) :
                            /\ recs[k].security_title = "Common Stock (Derivative)"
                            /\ recs[k].shares_owned_after = <<Underlying(e)>>
            /\ (\A k \in 1..Len(recs) : recs[k].path # "derivative") =>
                  \A i \in 1..n :
                      (/\ doc.elems[i].table = "derivative"
                       /\ doc.elems[i].tag = "holding"
                       /\ doc.elems[i].title # NoneValue) => Of(i) # {}

\* C26: a record is kept for the person exactly when is_name_match of the
\* name searched for and the name of the filer holds
C26_KeptIffNameMatch ==
    (matching # <<>> /\ matching.op = "filter") =>
        (matching.retained <=> matching.result)


\* C28: whatever the interleaving of Cache.get and Cache.set from several
\* threads on one key, no call raises from the cache's own bookkeeping and no
\* call returns an expired value.
C28_NoRaiseNoExpiredValue ==
    \A t \in DOMAIN getting :
        /\ getting[t].outcome # "KeyError"
        /\ getting[t].fresh

\* C29: an operation wrapped by both cached and rate_limited consults the cache
\* first: a call answered from the cache leaves the limiter's requests and its
\* admissions as they were, and a call that misses makes exactly one admission.
C29_CacheBeforeLimiter ==
    lastCall.op = "call" /\ "limiter" \in DOMAIN lastCall =>
        IF lastCall.invoked
        THEN /\ Len(history) = Len(lastCall.limiter[2]) + 1
             /\ SubSeq(history, 1, Len(history) - 1) = lastCall.limiter[2]
             /\ requests[Len(requests)] = history[Len(history)].entered
        ELSE /\ history = lastCall.limiter[2]
             /\ requests = lastCall.limiter[1]

\* a call answered from the cache after an earlier call was admitted
C29_HitAfterAdmission ==
    /\ lastCall.op = "call"
    /\ ~lastCall.invoked
    /\ lastCall.outcome = "returned"
    /\ lastCall.result # NoneValue
    /\ Len(history) >= 1


\* C30: a failed fetch of the company list is cached like a success, under
\* the default TTL: while the empty list is live, every brute-force search
\* for the same user agent that runs returns the error result and sends no
\* request for the list, and its error result is cached as well, so that the
\* same search again is answered with it, again without a request.
C30_FailedDirectoryCached ==
    /\ \A user_agent \in UserAgents :
          LET entry == DirectoryEntry(cache, user_agent, wall)
          IN  entry.found => entry.expires_at = entry.created + default_ttl["default"]
    /\ (reply # <<>> /\ reply.op = "search") =>
          LET cache_key == CallKey(BruteForceCall(reply.person_name, reply.user_agent))
              error == ErrorResultFor(reply.person_name)
          IN  /\ (reply.ran /\ reply.directory.found /\ reply.directory.fresh
                    /\ reply.directory.empty)
                 => (reply.returned = error /\ sent = reply.sent)
              /\ (reply.ran /\ "error" \in DOMAIN reply.returned)
                 => /\ cache_key \in DOMAIN cache
                    /\ cache[cache_key].value = error
                    /\ cache[cache_key].expires_at = reply.at + default_ttl["default"]
              /\ ~reply.ran => sent = reply.sent

\* a search for another person, three hours after the fetch for the same
\* user agent failed, returned the error result without a request
C30_OtherSearchWithinTtl ==
    /\ reply # <<>> /\ reply.op = "search"
    /\ reply.ran
    /\ reply.directory.found /\ reply.directory.empty
    /\ reply.at = reply.directory.created + 3
    /\ "error" \in DOMAIN reply.returned
    /\ sent = 1


====
